---- MODULE Spec2Model ----
(***************************************************************************)
(* Shared Python gateway coordinator (src/unnamed/part_003).               *)
(*                                                                         *)
(* Several CLI invocations (OS processes) share one kernel-gateway         *)
(* subprocess through a single JSON record on disk (gateway.json).  Every  *)
(* invocation runs the same module; its module-level variables             *)
(* (localGatewayProcess, localGatewayUrl, idleShutdownTimer,               *)
(* isCoordinatorInitialized) are per process, the record and the backend   *)
(* processes are shared.                                                   *)
(*                                                                         *)
(* Granularity.  Invocations are separate OS processes, so every access of *)
(* the state file is its own atomic step: a read and the write computed    *)
(* from it are two steps, and any step of another invocation may fall in   *)
(* between.  Inside one invocation the JavaScript event loop runs a        *)
(* callback to completion: the idle timer's callback runs only while no    *)
(* synchronous section of the same invocation is between two file          *)
(* accesses (sync[p] = "none"), but it may run at every await of an        *)
(* acquire in flight.  The health probe's step is the moment the backend   *)
(* answers; the continuation that uses the answer is the next step.        *)
(*                                                                         *)
(* Caller protocol assumed by the model: an invocation awaits its acquire  *)
(* before calling release or shutdown, and calls acquire only when it      *)
(* holds no acquisition.                                                   *)
(*                                                                         *)
(* The last sections model the review tools (src/unnamed/part_002):        *)
(* report_finding, submit_review and the replay of their state from the    *)
(* session's branch.                                                       *)
(***************************************************************************)
EXTENDS Naturals, Integers, Sequences, FiniteSets, TLC

\* ---------------------------------------------------------------- bounds
NumProcs == 2
MaxSpawn == 2
MaxEvents == 4
\* The startup timeout, in polls of the health check.
MaxPolls == 2
\* The entries a session of the review tools gets.
MaxEntries == 3

Procs == 1..NumProcs
\* The k-th backend ever spawned has pid k and listens on the k-th port.
Pids == 1..MaxSpawn
\* The working directory invocation p was started in and passes to acquire.
CwdOf(p) == <<"/proj", p>>

VARIABLES
    store,          \* gateway.json: <<>> when absent, <<info>> when present
    status,         \* per pid: "none" (never spawned), "up", "hung" (running, not answering),
                    \* "failing" (running, answering with an error status),
                    \* "exited" (on its own), "killed", "idleKilled" (tree killed)
    pc,             \* per invocation: position of its acquireSharedGateway call
    existingInfo,   \* per invocation: acquire's local const existingInfo (<<>> = null)
    cwdArg,         \* per invocation: acquire's argument cwd
    spawned,        \* per invocation: startGatewayProcess's local gatewayProcess (0 = none)
    sync,           \* per invocation: synchronous section between two file accesses
    relInfo,        \* per invocation: release's local const info
    localGatewayProcess,      \* per invocation: pid of the handle, 0 = null
    localGatewayUrl,          \* per invocation: <<>> = null, <<url>>
    idleShutdownTimer,        \* per invocation: TRUE when a timeout is pending
    isCoordinatorInitialized, \* per invocation
    result,         \* per invocation: what its last acquire returned, <<>> = null / none yet
    holding,        \* history: the pid the invocation acquired and has not released, 0 = none
    events,         \* history: public calls and backend faults so far
    ev,             \* history: the step just taken, [op, p]
    testMode,       \* per invocation: BUN_ENV or NODE_ENV is "test"
    pendingTimeouts,\* per invocation: timeouts set in its runtime, not yet fired or cleared
    procEnv,        \* the invoking environment: name -> value, Undefined when not set
    host,           \* what the host answers: which files exist, what is on the PATH
    spawnArgs,      \* what startGatewayProcess handed to Bun.spawn, or the error it threw
    elapsed,        \* per invocation: Date.now() - startTime of its startup wait, in polls
    exited,         \* per invocation: startGatewayProcess's local flag exited
    started,        \* per invocation: what its startGatewayProcess returned or threw
    findings,       \* review tools: the factory's variable findings, a reference to an array
    entries,        \* review tools: the session's entries, in the order they were appended
    leaf,           \* review tools: the session's current leaf, 0 = no entry yet
    toolResult,     \* review tools: what the last execute returned, <<>> = none yet
    reported,       \* history: the findings reported since the previous submit_review call
    delivered       \* history: the findings each submit_review call returned, call by call

vars == <<store, status, pc, existingInfo, cwdArg, spawned, sync, relInfo,
          localGatewayProcess, localGatewayUrl, idleShutdownTimer,
          isCoordinatorInitialized, result, holding, events, ev,
          testMode, pendingTimeouts, procEnv, host, spawnArgs,
          elapsed, exited, started,
          findings, entries, leaf, toolResult, reported, delivered>>

\* The review tools' state (src/unnamed/part_002).
reviewVars == <<findings, entries, leaf, toolResult, reported, delivered>>

\* The idle timer: the module's handle and what the runtime has pending for it.
timerVars == <<idleShutdownTimer, pendingTimeouts>>

\* What no step of the coordinator's operations changes.
otherVars == <<testMode, procEnv, host, spawnArgs, elapsed, exited, started, reviewVars>>

\* ------------------------------------------------------------ data model

\* `http://127.0.0.1:${gatewayPort}`
GatewayUrl(port) == [host |-> "127.0.0.1", port |-> port]

\* interface GatewayInfo
GatewayInfo(url, pid, startedAt, refCount, cwd) ==
    [url |-> url, pid |-> pid, startedAt |-> startedAt, refCount |-> refCount, cwd |-> cwd]

\* interface AcquireResult
AcquireResult(url, isShared) == [url |-> url, isShared |-> isShared]

\* Date.now(): logical time, the number of backends spawned so far.
Now == Cardinality({b \in Pids : status[b] # "none"})

\* The pid (and port) the operating system gives the next spawned backend.
NextPid == Now + 1

Event(op, p) == [op |-> op, p |-> p]

\* The model's budget of external events: a public call, a backend fault.
CountEvent == events < MaxEvents /\ events' = events + 1

\* ------------------------------------------------------------ environment

\* A variable's name is the sequence of its segments, each segment ending with its
\* underscore: LC_ALL is <<"LC_", "ALL">>.  A value is a sequence of tokens, the
\* empty string is <<>>.
Undefined == <<"undefined">>

Empty == <<>>

DEFAULT_ENV_ALLOWLIST ==
    { <<"PATH">>, <<"HOME">>, <<"USER">>, <<"LOGNAME">>, <<"SHELL">>, <<"LANG">>,
      <<"LC_", "ALL">>, <<"LC_", "CTYPE">>, <<"LC_", "MESSAGES">>,
      <<"TERM">>, <<"TERM_", "PROGRAM">>, <<"TERM_", "PROGRAM_", "VERSION">>,
      <<"TMPDIR">>, <<"TEMP">>, <<"TMP">>,
      <<"XDG_", "CACHE_", "HOME">>, <<"XDG_", "CONFIG_", "HOME">>,
      <<"XDG_", "DATA_", "HOME">>, <<"XDG_", "RUNTIME_", "DIR">>,
      <<"SSH_", "AUTH_", "SOCK">>, <<"SSH_", "AGENT_", "PID">>,
      <<"CONDA_", "PREFIX">>, <<"CONDA_", "DEFAULT_", "ENV">>,
      <<"VIRTUAL_", "ENV">>, <<"PYTHONPATH">> }

DEFAULT_ENV_ALLOW_PREFIXES == { <<"LC_">>, <<"XDG_">>, <<"OMP_">> }

DEFAULT_ENV_DENYLIST ==
    { <<"OPENAI_", "API_", "KEY">>, <<"ANTHROPIC_", "API_", "KEY">>,
      <<"GOOGLE_", "API_", "KEY">>, <<"GEMINI_", "API_", "KEY">>,
      <<"OPENROUTER_", "API_", "KEY">>, <<"PERPLEXITY_", "API_", "KEY">>,
      <<"EXA_", "API_", "KEY">>, <<"AZURE_", "OPENAI_", "API_", "KEY">>,
      <<"MISTRAL_", "API_", "KEY">> }

\* key.startsWith(prefix), for a prefix that ends with an underscore
startsWith(key, prefix) ==
    Len(key) >= Len(prefix) /\ SubSeq(key, 1, Len(prefix)) = prefix

\* JavaScript's truthiness of a string or undefined
truthy(value) == value # Undefined /\ value # Empty

\* env[key], undefined when the object has no such property
get(env, key) == IF key \in DOMAIN env THEN env[key] ELSE Undefined

\* { ...env, [key]: value }
set(env, key, value) ==
    [k \in DOMAIN env \cup {key} |-> IF k = key THEN value ELSE env[k]]

\* The body of filterEnv's loop for one entry: is filtered[key] assigned?
filterKeeps_NoFilter(key, value) == value # Undefined

filterKeeps_AllowlistOnly(key, value) ==
    value # Undefined /\ key \notin DEFAULT_ENV_DENYLIST /\ key \in DEFAULT_ENV_ALLOWLIST

filterKeeps(key, value) ==
    IF value = Undefined THEN FALSE
    ELSE IF key \in DEFAULT_ENV_DENYLIST THEN FALSE
    ELSE IF key \in DEFAULT_ENV_ALLOWLIST THEN TRUE
    ELSE \E prefix \in DEFAULT_ENV_ALLOW_PREFIXES : startsWith(key, prefix)

filterEnv(env) ==
    [key \in {k \in DOMAIN env : filterKeeps(k, env[k])} |-> env[key]]

\* join(a, b) of node:path, and a list joined by the path delimiter
join(a, b) == a \o <<"/", b>>

delimited(a, b) == a \o <<":">> \o b

\* resolveVenvPath(cwd): process.env.VIRTUAL_ENV, else the first of cwd/.venv and
\* cwd/venv that Bun.file(..).exists() finds, else null.
resolveVenvPath(cwd, penv, h) ==
    IF truthy(get(penv, <<"VIRTUAL_", "ENV">>)) THEN get(penv, <<"VIRTUAL_", "ENV">>)
    ELSE IF h.dotVenv THEN join(cwd, ".venv")
    ELSE IF h.venv THEN join(cwd, "venv")
    ELSE Undefined

\* resolvePythonRuntime(cwd, baseEnv): {pythonPath, env}, or the error thrown.
resolvePythonRuntime(cwd, baseEnv, penv, h) ==
    LET venvPath == IF get(baseEnv, <<"VIRTUAL_", "ENV">>) # Undefined
                    THEN get(baseEnv, <<"VIRTUAL_", "ENV">>)
                    ELSE resolveVenvPath(cwd, penv, h)
        env == IF truthy(venvPath) THEN set(baseEnv, <<"VIRTUAL_", "ENV">>, venvPath)
                                   ELSE baseEnv
        binDir == join(venvPath, "bin")
        pythonCandidate == join(binDir, "python")
    IN IF truthy(venvPath) /\ h.venvPython
       THEN [pythonPath |-> pythonCandidate,
             env |-> set(env, <<"PATH">>,
                         IF truthy(get(env, <<"PATH">>))
                         THEN delimited(binDir, get(env, <<"PATH">>)) ELSE binDir)]
       ELSE IF h.which
       THEN [pythonPath |-> <<"python">>, env |-> env]
       ELSE [error |-> "Python executable not found on PATH"]

\* startGatewayProcess's kernelEnv: runtime.env, PYTHONUNBUFFERED, OMP_SHELL_SNAPSHOT
\* and PYTHONPATH with cwd in front.
kernelEnvOf(cwd, runtimeEnv, snapshotPath) ==
    LET e == set(set(runtimeEnv, <<"PYTHONUNBUFFERED">>, <<"1">>),
                 <<"OMP_", "SHELL_", "SNAPSHOT">>, snapshotPath)
        pythonPathParts == IF truthy(get(e, <<"PYTHONPATH">>))
                           THEN delimited(cwd, get(e, <<"PYTHONPATH">>)) ELSE cwd
    IN IF truthy(pythonPathParts) THEN set(e, <<"PYTHONPATH">>, pythonPathParts) ELSE e

\* startGatewayProcess up to Bun.spawn: the interpreter and the environment handed
\* to the backend, or the error thrown on the way.
spawnArgsOf(cwd, env, h) ==
    LET filteredEnv == filterEnv(env)
        runtime == resolvePythonRuntime(cwd, filteredEnv, env, h)
        snapshotPath == IF h.snapshot THEN <<"/snapshot">> ELSE Undefined
    IN IF "error" \in DOMAIN runtime THEN runtime
       ELSE [pythonPath |-> runtime.pythonPath,
             env |-> kernelEnvOf(cwd, runtime.env, snapshotPath)]

\* The names the checked environments are drawn from, and the values of one name.
EnvNames ==
    { <<"OPENAI_", "API_", "KEY">>, <<"HOME">>, <<"OMP_", "DEBUG">>, <<"SECRET">>,
      <<"VIRTUAL_", "ENV">>, <<"PATH">>, <<"PYTHONPATH">> }

EnvValues == { Undefined, Empty, <<"v">> }

Hosts == [dotVenv : BOOLEAN, venv : BOOLEAN, venvPython : BOOLEAN, which : BOOLEAN,
          snapshot : BOOLEAN]

\* ------------------------------------------------------------ StateStore

\* What the file can hold besides the JSON text of a record: text that JSON.parse
\* rejects, and bytes that readFileSync fails to read.
Unparsable == [text |-> "{ url: "]

Unreadable == [errno |-> "EACCES"]

existsSync == store # <<>>

\* readGatewayInfo(): null when the file does not exist, null from the catch clause
\* when readFileSync or JSON.parse throws, else the record parsed.
readGatewayInfo_NoCatch == store

readGatewayInfo ==
    IF ~existsSync THEN <<>>
    ELSE IF store[1] \in {Unparsable, Unreadable} THEN <<>>
    ELSE store

writeGatewayInfo(info) == <<info>>

clearGatewayInfo == <<>>

\* ------------------------------------------------------------- liveness

isPidRunning(pid) == status[pid] \in {"up", "hung", "failing"}

\* fetch(`${url}/api/kernelspecs`, {signal}): the response, or what is thrown.  A
\* backend that does not answer lets the request run into the abort after
\* HEALTH_CHECK_TIMEOUT_MS; where nothing listens the connection is refused.
fetch(url) ==
    CASE status[url.port] = "up" -> [ok |-> TRUE]
      [] status[url.port] = "failing" -> [ok |-> FALSE]
      [] status[url.port] = "hung" -> [error |-> "AbortError"]
      [] OTHER -> [error |-> "ConnectionRefused"]

\* isGatewayHealthy(url): response.ok, and false from the catch clause.
isGatewayHealthy_AnyResponse(url) == "error" \notin DOMAIN fetch(url)

isGatewayHealthy(url) ==
    LET response == fetch(url)
    IN IF "error" \in DOMAIN response THEN FALSE ELSE response.ok

isGatewayAlive_PidOnly(info) == isPidRunning(info.pid)

isGatewayAlive(info) ==
    IF ~isPidRunning(info.pid) THEN FALSE ELSE isGatewayHealthy(info.url)

\* killProcessTree(pid): the process and every process it spawned are ended.  Of a
\* backend that exited on its own ("exited") the descendants may still be there;
\* they are reclaimed as well.  A tree already killed is left as it is.
killProcessTree(st, pid, how) ==
    IF pid \in Pids /\ st[pid] \in {"up", "hung", "failing", "exited"}
    THEN [st EXCEPT ![pid] = how] ELSE st

\* Math.max(0, info.refCount - 1)
newRefCount_NoClamp(n) == n - 1

newRefCount(n) == IF n - 1 > 0 THEN n - 1 ELSE 0

\* ------------------------------------------------------------ idle timer

\* clearTimeout(handle): the timeout the handle names is pending no longer.
clearTimeout(pending, p) == [pending EXCEPT ![p] = IF @ > 0 THEN @ - 1 ELSE 0]

\* setTimeout(callback, GATEWAY_IDLE_TIMEOUT_MS): one more timeout is pending.
setTimeout(pending, p) == [pending EXCEPT ![p] = @ + 1]

\* The runtime takes a pending timeout and runs its callback.
fireTimeout(pending, p) == [pending EXCEPT ![p] = @ - 1]

\* scheduleIdleShutdown(), the runtime's side: if (idleShutdownTimer) clearTimeout;
\* then setTimeout.
scheduleIdleShutdownTimeouts_NoClear(p) == setTimeout(pendingTimeouts, p)

scheduleIdleShutdownTimeouts(p) ==
    setTimeout(IF idleShutdownTimer[p] THEN clearTimeout(pendingTimeouts, p)
                                       ELSE pendingTimeouts, p)

\* cancelIdleShutdown(), the runtime's side: if (idleShutdownTimer) clearTimeout.
cancelIdleShutdownTimeouts(p) ==
    IF idleShutdownTimer[p] THEN clearTimeout(pendingTimeouts, p) ELSE pendingTimeouts

\* scheduleIdleShutdown(), the module's handle: the new timeout's.
scheduleIdleShutdown_NotArmed(p) == idleShutdownTimer

scheduleIdleShutdown(p) == [idleShutdownTimer EXCEPT ![p] = TRUE]

\* cancelIdleShutdown()
cancelIdleShutdown_Keeps(p) == idleShutdownTimer

cancelIdleShutdown(p) == [idleShutdownTimer EXCEPT ![p] = FALSE]

\* ------------------------------------------------------------------ Init

InitCoordinator ==
    /\ store = <<>>
    /\ status = [b \in Pids |-> "none"]
    /\ pc = [p \in Procs |-> "idle"]
    /\ existingInfo = [p \in Procs |-> <<>>]
    /\ cwdArg = [p \in Procs |-> <<>>]
    /\ spawned = [p \in Procs |-> 0]
    /\ sync = [p \in Procs |-> "none"]
    /\ relInfo = [p \in Procs |-> <<>>]
    /\ localGatewayProcess = [p \in Procs |-> 0]
    /\ localGatewayUrl = [p \in Procs |-> <<>>]
    /\ idleShutdownTimer = [p \in Procs |-> FALSE]
    /\ isCoordinatorInitialized = [p \in Procs |-> FALSE]
    /\ result = [p \in Procs |-> <<>>]
    /\ holding = [p \in Procs |-> 0]
    /\ events = 0
    /\ ev = Event("init", 0)
    /\ pendingTimeouts = [p \in Procs |-> 0]
    /\ spawnArgs = <<>>
    /\ elapsed = [p \in Procs |-> 0]
    /\ exited = [p \in Procs |-> FALSE]
    /\ started = [p \in Procs |-> <<>>]
    /\ findings = [own |-> <<>>]
    /\ entries = <<>>
    /\ leaf = 0
    /\ toolResult = <<>>
    /\ reported = <<>>
    /\ delivered = <<>>

\* The coordinator's specifications leave the environment out: launches are
\* taken by their outcomes.
Init ==
    /\ InitCoordinator
    /\ testMode \in [Procs -> BOOLEAN]
    /\ procEnv = [k \in EnvNames |-> Undefined]
    /\ host = [dotVenv |-> FALSE, venv |-> FALSE, venvPython |-> FALSE, which |-> TRUE,
               snapshot |-> FALSE]

\* --------------------------------------------------------------- acquire

\* acquireSharedGateway(cwd) in test mode: return null at once.
AcqTest(p, cwd) ==
    /\ CountEvent /\ UNCHANGED otherVars
    /\ testMode[p]
    /\ pc[p] = "idle" /\ sync[p] = "none"
    /\ result' = [result EXCEPT ![p] = <<>>]
    /\ ev' = Event("acqTest", p)
    /\ UNCHANGED <<store, status, pc, existingInfo, cwdArg, spawned, sync, relInfo,
                   localGatewayProcess, localGatewayUrl, timerVars,
                   isCoordinatorInitialized, holding>>

\* acquireSharedGateway(cwd), up to the first await: ensureGatewayDir, readGatewayInfo.
\* With no record the call runs on into startGatewayProcess.
AcqStart(p, cwd) ==
    /\ CountEvent /\ UNCHANGED otherVars
    /\ ~testMode[p]
    /\ pc[p] = "idle" /\ sync[p] = "none" /\ holding[p] = 0
    /\ existingInfo' = [existingInfo EXCEPT ![p] = readGatewayInfo]
    /\ cwdArg' = [cwdArg EXCEPT ![p] = cwd]
    /\ result' = [result EXCEPT ![p] = <<>>]
    /\ pc' = [pc EXCEPT ![p] = IF readGatewayInfo # <<>> THEN "probe" ELSE "launch"]
    /\ ev' = Event("acqStart", p)
    /\ UNCHANGED <<store, status, spawned, sync, relInfo, localGatewayProcess,
                   localGatewayUrl, timerVars, isCoordinatorInitialized, holding>>

\* await isGatewayAlive(existingInfo): the pid test and the backend's answer.
AcqProbe(p) ==
    /\ UNCHANGED <<events, otherVars>>
    /\ pc[p] = "probe" /\ sync[p] = "none"
    /\ pc' = [pc EXCEPT ![p] = IF isGatewayAlive(existingInfo[p][1]) THEN "reuse" ELSE "stale"]
    /\ ev' = Event("acqProbe", p)
    /\ UNCHANGED <<store, status, existingInfo, cwdArg, spawned, sync, relInfo,
                   localGatewayProcess, localGatewayUrl, timerVars,
                   isCoordinatorInitialized, result, holding>>

\* { ...existingInfo, refCount: existingInfo.refCount + 1 }
reuseInfo_NoIncrement(info) == info

reuseInfo_Restamped(info) ==
    [info EXCEPT !.refCount = info.refCount + 1, !.startedAt = Now]

reuseInfo(info) == [info EXCEPT !.refCount = info.refCount + 1]

\* The reuse branch: write refCount + 1 of the record read, cancelIdleShutdown, return.
AcqReuse(p) ==
    /\ UNCHANGED <<events, otherVars>>
    /\ pc[p] = "reuse" /\ sync[p] = "none"
    /\ LET info == existingInfo[p][1]
           updatedInfo == reuseInfo(info)
       IN /\ store' = writeGatewayInfo(updatedInfo)
          /\ result' = [result EXCEPT ![p] = <<AcquireResult(info.url, TRUE)>>]
          /\ holding' = [holding EXCEPT ![p] = info.url.port]
    /\ idleShutdownTimer' = cancelIdleShutdown(p)
    /\ pendingTimeouts' = cancelIdleShutdownTimeouts(p)
    /\ isCoordinatorInitialized' = [isCoordinatorInitialized EXCEPT ![p] = TRUE]
    /\ existingInfo' = [existingInfo EXCEPT ![p] = <<>>]
    /\ cwdArg' = [cwdArg EXCEPT ![p] = <<>>]
    /\ pc' = [pc EXCEPT ![p] = "idle"]
    /\ ev' = Event("acqReuse", p)
    /\ UNCHANGED <<status, spawned, sync, relInfo, localGatewayProcess, localGatewayUrl>>

\* The record was judged not alive: clearGatewayInfo, then on into startGatewayProcess.
AcqStale(p) ==
    /\ UNCHANGED <<events, otherVars>>
    /\ pc[p] = "stale" /\ sync[p] = "none"
    /\ store' = clearGatewayInfo
    /\ pc' = [pc EXCEPT ![p] = "launch"]
    /\ ev' = Event("acqStale", p)
    /\ UNCHANGED <<status, existingInfo, cwdArg, spawned, sync, relInfo,
                   localGatewayProcess, localGatewayUrl, timerVars,
                   isCoordinatorInitialized, result, holding>>

\* acquire's catch clause: whatever was thrown inside the try block is logged and
\* the call returns null.  A call that threw would leave <<[error |-> err]>>.
acquireCatch_Rethrows(err) == <<[error |-> err]>>

acquireCatch(err) == <<>>

\* An error thrown inside acquire's try block: the call ends in the catch clause.
AcqFail(p, op) ==
    /\ result' = [result EXCEPT ![p] = acquireCatch(op)]
    /\ existingInfo' = [existingInfo EXCEPT ![p] = <<>>]
    /\ cwdArg' = [cwdArg EXCEPT ![p] = <<>>]
    /\ spawned' = [spawned EXCEPT ![p] = 0]
    /\ pc' = [pc EXCEPT ![p] = "idle"]
    /\ ev' = Event(op, p)

\* startGatewayProcess throws before Bun.spawn: no Python runtime, no port.
AcqLaunchThrow(p) ==
    /\ UNCHANGED <<events, otherVars>>
    /\ pc[p] = "launch" /\ sync[p] = "none"
    /\ AcqFail(p, "acqNoRuntime")
    /\ UNCHANGED <<store, status, sync, relInfo, localGatewayProcess, localGatewayUrl,
                   timerVars, isCoordinatorInitialized, holding>>

\* Bun.spawn, and a poll of the new backend answers ok.
AcqLaunchHealthy(p) ==
    /\ UNCHANGED <<events, otherVars>>
    /\ pc[p] = "launch" /\ sync[p] = "none"
    /\ NextPid \in Pids
    /\ status' = [status EXCEPT ![NextPid] = "up"]
    /\ spawned' = [spawned EXCEPT ![p] = NextPid]
    /\ pc' = [pc EXCEPT ![p] = "finish"]
    /\ ev' = Event("acqSpawn", p)
    /\ UNCHANGED <<store, existingInfo, cwdArg, sync, relInfo, localGatewayProcess,
                   localGatewayUrl, timerVars, isCoordinatorInitialized,
                   result, holding>>

\* Bun.spawn, and the process exits before it ever answers: "exited during startup".
AcqLaunchExited(p) ==
    /\ UNCHANGED <<events, otherVars>>
    /\ pc[p] = "launch" /\ sync[p] = "none"
    /\ NextPid \in Pids
    /\ status' = [status EXCEPT ![NextPid] = "exited"]
    /\ AcqFail(p, "acqExited")
    /\ UNCHANGED <<store, sync, relInfo, localGatewayProcess, localGatewayUrl,
                   timerVars, isCoordinatorInitialized, holding>>

\* Bun.spawn, no ok answer within GATEWAY_STARTUP_TIMEOUT_MS: killProcessTree, throw.
AcqLaunchTimeout(p) ==
    /\ UNCHANGED <<events, otherVars>>
    /\ pc[p] = "launch" /\ sync[p] = "none"
    /\ NextPid \in Pids
    /\ status' = killProcessTree([status EXCEPT ![NextPid] = "hung"], NextPid, "killed")
    /\ AcqFail(p, "acqTimeout")
    /\ UNCHANGED <<store, sync, relInfo, localGatewayProcess, localGatewayUrl,
                   timerVars, isCoordinatorInitialized, holding>>

\* The record of a backend just launched: { url, pid, startedAt: Date.now(), refCount: 1, cwd }
freshInfo_ZeroRef(url, pid, cwd) == GatewayInfo(url, pid, Now, 0, cwd)

freshInfo(url, pid, cwd) == GatewayInfo(url, pid, Now, 1, cwd)

\* The continuation of the ok poll: keep the handle and the url, return {url, pid};
\* acquire writes the fresh record and returns.
AcqFinish(p) ==
    /\ UNCHANGED <<events, otherVars>>
    /\ pc[p] = "finish" /\ sync[p] = "none"
    /\ LET pid == spawned[p]
           url == GatewayUrl(pid)
           info == freshInfo(url, pid, cwdArg[p])
       IN /\ localGatewayProcess' = [localGatewayProcess EXCEPT ![p] = pid]
          /\ localGatewayUrl' = [localGatewayUrl EXCEPT ![p] = <<url>>]
          /\ store' = writeGatewayInfo(info)
          /\ result' = [result EXCEPT ![p] = <<AcquireResult(url, TRUE)>>]
          /\ holding' = [holding EXCEPT ![p] = pid]
    /\ isCoordinatorInitialized' = [isCoordinatorInitialized EXCEPT ![p] = TRUE]
    /\ existingInfo' = [existingInfo EXCEPT ![p] = <<>>]
    /\ cwdArg' = [cwdArg EXCEPT ![p] = <<>>]
    /\ spawned' = [spawned EXCEPT ![p] = 0]
    /\ pc' = [pc EXCEPT ![p] = "idle"]
    /\ ev' = Event("acqFinish", p)
    /\ UNCHANGED <<status, sync, relInfo, timerVars>>

\* --------------------------------------------------------------- release

\* releaseSharedGateway() in an invocation that is not initialized: return at once.
RelSkip_Decrements(p) ==
    /\ CountEvent /\ UNCHANGED otherVars
    /\ pc[p] = "idle" /\ sync[p] = "none"
    /\ ~isCoordinatorInitialized[p]
    /\ store' = IF readGatewayInfo # <<>>
                THEN writeGatewayInfo([readGatewayInfo[1] EXCEPT
                                          !.refCount = newRefCount(@)])
                ELSE store
    /\ ev' = Event("relSkip", p)
    /\ UNCHANGED <<status, pc, existingInfo, cwdArg, spawned, sync, relInfo,
                   localGatewayProcess, localGatewayUrl, timerVars,
                   isCoordinatorInitialized, result, holding>>

RelSkip(p) ==
    /\ CountEvent /\ UNCHANGED otherVars
    /\ pc[p] = "idle" /\ sync[p] = "none"
    /\ ~isCoordinatorInitialized[p]
    /\ ev' = Event("relSkip", p)
    /\ UNCHANGED <<store, status, pc, existingInfo, cwdArg, spawned, sync, relInfo,
                   localGatewayProcess, localGatewayUrl, timerVars,
                   isCoordinatorInitialized, result, holding>>

\* releaseSharedGateway(): readGatewayInfo finds no record, return.
RelAbsent_Schedules(p) ==
    /\ CountEvent /\ UNCHANGED otherVars
    /\ pc[p] = "idle" /\ sync[p] = "none"
    /\ isCoordinatorInitialized[p]
    /\ readGatewayInfo = <<>>
    /\ idleShutdownTimer' = [idleShutdownTimer EXCEPT ![p] = TRUE]
    /\ pendingTimeouts' = scheduleIdleShutdownTimeouts(p)
    /\ holding' = [holding EXCEPT ![p] = 0]
    /\ ev' = Event("relAbsent", p)
    /\ UNCHANGED <<store, status, pc, existingInfo, cwdArg, spawned, sync, relInfo,
                   localGatewayProcess, localGatewayUrl, isCoordinatorInitialized, result>>

RelAbsent(p) ==
    /\ CountEvent /\ UNCHANGED otherVars
    /\ pc[p] = "idle" /\ sync[p] = "none"
    /\ isCoordinatorInitialized[p]
    /\ readGatewayInfo = <<>>
    /\ holding' = [holding EXCEPT ![p] = 0]
    /\ ev' = Event("relAbsent", p)
    /\ UNCHANGED <<store, status, pc, existingInfo, cwdArg, spawned, sync, relInfo,
                   localGatewayProcess, localGatewayUrl, timerVars,
                   isCoordinatorInitialized, result>>

\* releaseSharedGateway(): readGatewayInfo finds a record.
RelRead(p) ==
    /\ CountEvent /\ UNCHANGED otherVars
    /\ pc[p] = "idle" /\ sync[p] = "none"
    /\ isCoordinatorInitialized[p]
    /\ readGatewayInfo # <<>>
    /\ relInfo' = [relInfo EXCEPT ![p] = readGatewayInfo]
    /\ sync' = [sync EXCEPT ![p] = "release"]
    /\ ev' = Event("relRead", p)
    /\ UNCHANGED <<store, status, pc, existingInfo, cwdArg, spawned,
                   localGatewayProcess, localGatewayUrl, timerVars,
                   isCoordinatorInitialized, result, holding>>

\* releaseSharedGateway(): write the decremented record; at 0 scheduleIdleShutdown.
RelWrite(p) ==
    /\ UNCHANGED <<events, otherVars>>
    /\ sync[p] = "release"
    /\ LET info == relInfo[p][1]
           n == newRefCount(info.refCount)
       IN /\ store' = writeGatewayInfo([info EXCEPT !.refCount = n])
          /\ idleShutdownTimer' = IF n = 0 THEN scheduleIdleShutdown(p) ELSE idleShutdownTimer
          /\ pendingTimeouts' = IF n = 0 THEN scheduleIdleShutdownTimeouts(p)
                                          ELSE pendingTimeouts
    /\ relInfo' = [relInfo EXCEPT ![p] = <<>>]
    /\ sync' = [sync EXCEPT ![p] = "none"]
    /\ holding' = [holding EXCEPT ![p] = 0]
    /\ ev' = Event("relWrite", p)
    /\ UNCHANGED <<status, pc, existingInfo, cwdArg, spawned, localGatewayProcess,
                   localGatewayUrl, isCoordinatorInitialized, result>>

\* --------------------------------------------------- idle timer callback

\* The timeout's callback runs and finds no record, or a refCount other than 0.
TimerSkip_Acts(p) ==
    /\ UNCHANGED <<events, otherVars>>
    /\ pendingTimeouts[p] > 0 /\ sync[p] = "none"
    /\ ~(readGatewayInfo # <<>> /\ readGatewayInfo[1].refCount = 0)
    /\ pendingTimeouts' = fireTimeout(pendingTimeouts, p)
    /\ idleShutdownTimer' = [idleShutdownTimer EXCEPT ![p] = FALSE]
    /\ status' = killProcessTree(status, localGatewayProcess[p], "idleKilled")
    /\ localGatewayProcess' = [localGatewayProcess EXCEPT ![p] = 0]
    /\ localGatewayUrl' = [localGatewayUrl EXCEPT ![p] = <<>>]
    /\ store' = clearGatewayInfo
    /\ ev' = Event("timerSkip", p)
    /\ UNCHANGED <<pc, existingInfo, cwdArg, spawned, sync, relInfo,
                   isCoordinatorInitialized, result, holding>>

TimerSkip(p) ==
    /\ UNCHANGED <<events, otherVars>>
    /\ pendingTimeouts[p] > 0 /\ sync[p] = "none"
    /\ ~(readGatewayInfo # <<>> /\ readGatewayInfo[1].refCount = 0)
    /\ pendingTimeouts' = fireTimeout(pendingTimeouts, p)
    /\ idleShutdownTimer' = [idleShutdownTimer EXCEPT ![p] = FALSE]
    /\ ev' = Event("timerSkip", p)
    /\ UNCHANGED <<store, status, pc, existingInfo, cwdArg, spawned, sync, relInfo,
                   localGatewayProcess, localGatewayUrl, isCoordinatorInitialized,
                   result, holding>>

\* The callback finds refCount 0: shutdownLocalGateway() (kill the local handle, if any).
TimerShutdown(p) ==
    /\ UNCHANGED <<events, otherVars>>
    /\ pendingTimeouts[p] > 0 /\ sync[p] = "none"
    /\ readGatewayInfo # <<>> /\ readGatewayInfo[1].refCount = 0
    /\ pendingTimeouts' = fireTimeout(pendingTimeouts, p)
    /\ status' = killProcessTree(status, localGatewayProcess[p], "idleKilled")
    /\ localGatewayProcess' = [localGatewayProcess EXCEPT ![p] = 0]
    /\ localGatewayUrl' = [localGatewayUrl EXCEPT ![p] = <<>>]
    /\ sync' = [sync EXCEPT ![p] = "timer"]
    /\ ev' = Event("timerShutdown", p)
    /\ UNCHANGED <<store, pc, existingInfo, cwdArg, spawned, relInfo, idleShutdownTimer,
                   isCoordinatorInitialized, result, holding>>

\* The callback goes on: clearGatewayInfo(), idleShutdownTimer = null.
TimerClear(p) ==
    /\ UNCHANGED <<events, otherVars>>
    /\ sync[p] = "timer"
    /\ store' = clearGatewayInfo
    /\ idleShutdownTimer' = [idleShutdownTimer EXCEPT ![p] = FALSE]
    /\ UNCHANGED pendingTimeouts
    /\ sync' = [sync EXCEPT ![p] = "none"]
    /\ ev' = Event("timerClear", p)
    /\ UNCHANGED <<status, pc, existingInfo, cwdArg, spawned, relInfo,
                   localGatewayProcess, localGatewayUrl, isCoordinatorInitialized,
                   result, holding>>

\* -------------------------------------------------------------- shutdown

\* shutdownSharedGateway(): cancelIdleShutdown, clear the record if one is read,
\* shutdownLocalGateway, isCoordinatorInitialized = false.
Shutdown_KeepsUrl(p) ==
    /\ CountEvent /\ UNCHANGED otherVars
    /\ pc[p] = "idle" /\ sync[p] = "none"
    /\ idleShutdownTimer' = cancelIdleShutdown(p)
    /\ pendingTimeouts' = cancelIdleShutdownTimeouts(p)
    /\ store' = IF readGatewayInfo # <<>> THEN clearGatewayInfo ELSE store
    /\ status' = killProcessTree(status, localGatewayProcess[p], "killed")
    /\ localGatewayProcess' = [localGatewayProcess EXCEPT ![p] = 0]
    /\ isCoordinatorInitialized' = [isCoordinatorInitialized EXCEPT ![p] = FALSE]
    /\ holding' = [holding EXCEPT ![p] = 0]
    /\ ev' = Event("shutdown", p)
    /\ UNCHANGED <<pc, existingInfo, cwdArg, spawned, sync, relInfo, result,
                   localGatewayUrl>>

Shutdown(p) ==
    /\ CountEvent /\ UNCHANGED otherVars
    /\ pc[p] = "idle" /\ sync[p] = "none"
    /\ idleShutdownTimer' = cancelIdleShutdown(p)
    /\ pendingTimeouts' = cancelIdleShutdownTimeouts(p)
    /\ store' = IF readGatewayInfo # <<>> THEN clearGatewayInfo ELSE store
    /\ status' = killProcessTree(status, localGatewayProcess[p], "killed")
    /\ localGatewayProcess' = [localGatewayProcess EXCEPT ![p] = 0]
    /\ localGatewayUrl' = [localGatewayUrl EXCEPT ![p] = <<>>]
    /\ isCoordinatorInitialized' = [isCoordinatorInitialized EXCEPT ![p] = FALSE]
    /\ holding' = [holding EXCEPT ![p] = 0]
    /\ ev' = Event("shutdown", p)
    /\ UNCHANGED <<pc, existingInfo, cwdArg, spawned, sync, relInfo, result>>

\* ----------------------------------------------------------- environment

\* A running backend exits on its own.
BackendExit(b) ==
    /\ CountEvent /\ UNCHANGED otherVars
    /\ status[b] \in {"up", "hung", "failing"}
    /\ status' = [status EXCEPT ![b] = "exited"]
    /\ ev' = Event("backendExit", 0)
    /\ UNCHANGED <<store, pc, existingInfo, cwdArg, spawned, sync, relInfo,
                   localGatewayProcess, localGatewayUrl, timerVars,
                   isCoordinatorInitialized, result, holding>>

\* A running backend stops answering its control API.
BackendHang(b) ==
    /\ CountEvent /\ UNCHANGED otherVars
    /\ status[b] = "up"
    /\ status' = [status EXCEPT ![b] = "hung"]
    /\ ev' = Event("backendHang", 0)
    /\ UNCHANGED <<store, pc, existingInfo, cwdArg, spawned, sync, relInfo,
                   localGatewayProcess, localGatewayUrl, timerVars,
                   isCoordinatorInitialized, result, holding>>

\* ------------------------------------------------------- specifications

Acquire(p) ==
    \/ AcqTest(p, CwdOf(p))
    \/ AcqStart(p, CwdOf(p))
    \/ AcqProbe(p)
    \/ AcqReuse(p)
    \/ AcqStale(p)
    \/ AcqLaunchThrow(p)
    \/ AcqLaunchHealthy(p)
    \/ AcqLaunchExited(p)
    \/ AcqLaunchTimeout(p)
    \/ AcqFinish(p)

\* acquireSharedGateway outside test mode.
AcquireLive(p) ==
    \/ AcqStart(p, CwdOf(p))
    \/ AcqProbe(p)
    \/ AcqReuse(p)
    \/ AcqStale(p)
    \/ AcqLaunchThrow(p)
    \/ AcqLaunchHealthy(p)
    \/ AcqLaunchExited(p)
    \/ AcqLaunchTimeout(p)
    \/ AcqFinish(p)

Release(p) ==
    \/ RelSkip(p)
    \/ RelAbsent(p)
    \/ RelRead(p)
    \/ RelWrite(p)

IdleCheck(p) ==
    \/ TimerSkip(p)
    \/ TimerShutdown(p)
    \/ TimerClear(p)

Next ==
    \/ \E p \in Procs : Acquire(p)
    \/ \E p \in Procs : Release(p)
    \/ \E p \in Procs : IdleCheck(p)
    \/ \E p \in Procs : Shutdown(p)
    \/ \E b \in Pids : BackendExit(b)
    \/ \E b \in Pids : BackendHang(b)

Spec == Init /\ [][Next]_vars

\* Invocations that only acquire and release, each release matching an acquisition
\* it holds; no shutdown(), no backend fault.
ReleaseHeld(p) ==
    \/ holding[p] # 0 /\ RelAbsent(p)
    \/ holding[p] # 0 /\ RelRead(p)
    \/ RelWrite(p)

NextAR ==
    \/ \E p \in Procs : Acquire(p)
    \/ \E p \in Procs : ReleaseHeld(p)
    \/ \E p \in Procs : IdleCheck(p)

SpecAR == Init /\ [][NextAR]_vars

\* What the runtime guarantees: an armed timeout fires, a call in flight goes on.
InFlight(p) ==
    \/ AcqProbe(p)
    \/ AcqReuse(p)
    \/ AcqStale(p)
    \/ AcqLaunchThrow(p)
    \/ AcqLaunchHealthy(p)
    \/ AcqLaunchExited(p)
    \/ AcqLaunchTimeout(p)
    \/ AcqFinish(p)
    \/ RelWrite(p)

Fairness == \A p \in Procs : WF_vars(IdleCheck(p)) /\ WF_vars(InFlight(p))

FairSpecAR == SpecAR /\ Fairness

\* ----------------------------------------------------------------- claims

Running(b) == status[b] \in {"up", "hung", "failing"}

Quiescent == \A p \in Procs : pc[p] = "idle" /\ sync[p] = "none"

\* C1 (P1, reuse): an acquire reads the stored record; if the backend it names is
\* running and answers the probe, the call takes the reuse branch; and if nobody
\* wrote the store since the read, the reuse branch leaves the same record with
\* refCount n + 1 in the store, returns {url: record.url, isShared: true} and
\* spawns no process.
C1_Reuse ==
    [][\A p \in Procs :
        /\ ev' = Event("acqStart", p) => existingInfo'[p] = store /\ status' = status
        /\ (ev' = Event("acqProbe", p) /\ status[existingInfo[p][1].pid] = "up")
              => pc'[p] = "reuse" /\ status' = status
        /\ (ev' = Event("acqReuse", p) /\ store = existingInfo[p])
              => /\ store' = <<[store[1] EXCEPT !.refCount = store[1].refCount + 1]>>
                 /\ result'[p] = <<[url |-> store[1].url, isShared |-> TRUE]>>
                 /\ status' = status
      ]_vars

\* A reuse has just taken a live record from refCount 1 to 2.
C1_Witness ==
    \E p \in Procs :
        /\ ev = Event("acqReuse", p)
        /\ store # <<>> /\ store[1].refCount = 2
        /\ status[store[1].pid] = "up"
        /\ result[p] = <<[url |-> store[1].url, isShared |-> TRUE]>>

\* C2 (shutdown only after the last release): no step of an idle check kills a
\* running backend, or clears the record of a backend, that some invocation has
\* acquired and not yet released; and no step of a release kills a backend or
\* removes the record.
C2_OnlyAfterLastRelease ==
    [][\A p \in Procs :
        /\ (ev' = Event("timerShutdown", p) /\ status' # status)
              => \A q \in Procs : holding[q] # localGatewayProcess[p]
        /\ (ev' = Event("timerClear", p) /\ store # <<>>)
              => \A q \in Procs : holding[q] # store[1].pid
        /\ ev' \in {Event("relAbsent", p), Event("relRead", p), Event("relWrite", p)}
              => status' = status /\ (store # <<>> => store' # <<>>)
      ]_vars

\* C4 (P4, cancel on re-acquire): an acquire that read the record at refCount 0,
\* that is, while the idle check armed by the last release was pending, and reused
\* it (writing refCount 1) returns the url of a backend that is still running,
\* whatever the order of its steps and the timer callback's.
C4_ReacquireSurvives ==
    \A p \in Procs :
        (ev = Event("acqReuse", p) /\ store[1].refCount = 1)
            => status[result[p][1].url.port] = "up"

\* C7 (the count is the number of dependents): with no call in flight, the stored
\* refCount is the number of invocations that acquired the recorded backend and
\* have not released it.
C7_RefCountIsDependents ==
    (Quiescent /\ store # <<>>)
        => store[1].refCount = Cardinality({p \in Procs : holding[p] = store[1].pid})

\* C3 (P4, idle shutdown): whenever a release has just written refCount 0 for the
\* record of backend b, with no acquire in flight, then eventually b is no longer
\* running and the record is gone, unless an acquire is started first.
C3_IdleShutdown ==
    \A b \in Pids :
        [](((\E p \in Procs : ev = Event("relWrite", p))
              /\ store # <<>> /\ store[1].pid = b /\ store[1].refCount = 0
              /\ \A q \in Procs : pc[q] = "idle")
           => <>((~Running(b) /\ store = <<>>) \/ ev.op = "acqStart"))

\* C5 (P3, stale recovery): a record whose backend is not running, or does not
\* answer the probe, is judged stale; the stale branch removes the record in a step
\* that launches nothing, and only then launches; a successful launch ends with a
\* fresh record of refCount 1 and the fresh backend's url; the call neither returns
\* the url nor increments the refCount of the record it judged stale.
C5_StaleRecovery ==
    [][\A p \in Procs :
        /\ (ev' = Event("acqProbe", p) /\ status[existingInfo[p][1].pid] # "up")
              => pc'[p] = "stale" /\ store' = store
        /\ (pc[p] = "stale" /\ pc'[p] # "stale")
              => /\ ev' = Event("acqStale", p)
                 /\ store' = <<>> /\ status' = status /\ pc'[p] = "launch"
        /\ (ev'.p = p /\ status' # status /\ existingInfo[p] # <<>>
                /\ ev'.op \in {"acqSpawn", "acqExited", "acqTimeout"})
              => pc[p] = "launch"
        /\ (ev' = Event("acqFinish", p) /\ existingInfo[p] # <<>>)
              => /\ store'[1].refCount = 1
                 /\ store'[1].pid = spawned[p] /\ store'[1].pid # existingInfo[p][1].pid
                 /\ store'[1].url # existingInfo[p][1].url
                 /\ result'[p] = <<[url |-> store'[1].url, isShared |-> TRUE]>>
        /\ (pc'[p] = "reuse" /\ pc[p] # "reuse")
              => status[existingInfo[p][1].pid] = "up"
      ]_vars

\* A record judged stale has been removed and a fresh backend launched in its place.
C5_Witness ==
    \E p \in Procs :
        /\ pc[p] = "finish" /\ existingInfo[p] # <<>>
        /\ status[existingInfo[p][1].pid] \in {"hung", "exited"}
        /\ store = <<>>
        /\ spawned[p] # existingInfo[p][1].pid /\ status[spawned[p]] = "up"

\* C6: the stored record, when present, has refCount >= 0.
C6_RefCountNonNegative == store # <<>> => store[1].refCount >= 0

\* A release in progress read refCount 0: the decrement is clamped.
C6_Witness ==
    \E p \in Procs :
        /\ sync[p] = "release" /\ relInfo[p][1].refCount = 0
        /\ holding[p] = 0
        /\ store # <<>> /\ store[1].refCount = 0

ReleaseCalls(p) == {Event("relSkip", p), Event("relAbsent", p), Event("relRead", p)}

\* What a release does once it goes on: with no record nothing changes; otherwise
\* the record read is written back with refCount max(0, n - 1), and the idle check
\* is armed exactly when that is 0.
ReleaseEffect(p) ==
    /\ ev' = Event("relAbsent", p)
          => UNCHANGED <<store, status, idleShutdownTimer, localGatewayProcess,
                         localGatewayUrl, isCoordinatorInitialized>>
    /\ ev' = Event("relRead", p)
          => /\ relInfo'[p] = store
             /\ UNCHANGED <<store, status, idleShutdownTimer>>
    /\ ev' = Event("relWrite", p)
          => LET n == relInfo[p][1].refCount
                 m == IF n > 0 THEN n - 1 ELSE 0
             IN /\ store' = <<[relInfo[p][1] EXCEPT !.refCount = m]>>
                /\ m = 0 => idleShutdownTimer'[p]
                /\ m > 0 => idleShutdownTimer'[p] = idleShutdownTimer[p]
                /\ \A q \in Procs \ {p} : idleShutdownTimer'[q] = idleShutdownTimer[q]

\* C8 as stated: every invocation that calls release() with a record present goes
\* on to decrement it.
C8_ReleaseAlways ==
    [][\A p \in Procs :
        /\ (ev' \in ReleaseCalls(p) /\ store = <<>>) => ev' # Event("relRead", p)
        /\ (ev' \in ReleaseCalls(p) /\ store # <<>>) => ev' = Event("relRead", p)
        /\ ReleaseEffect(p)
      ]_vars

\* C8 amended: every initialized invocation (one that acquired successfully and
\* has not shut down since) that calls release() with a record present goes on to
\* decrement it; with no record nothing changes.
C8_ReleaseInitialized ==
    [][\A p \in Procs :
        /\ (ev' \in ReleaseCalls(p) /\ store = <<>>) => ev' # Event("relRead", p)
        /\ (ev' \in ReleaseCalls(p) /\ store # <<>> /\ isCoordinatorInitialized[p])
              => ev' = Event("relRead", p)
        /\ ReleaseEffect(p)
      ]_vars

\* An initialized invocation has just released a record from refCount 2 to 1, and
\* no idle check is armed in it.
C8_Witness ==
    \E p \in Procs :
        /\ ev = Event("relWrite", p)
        /\ store # <<>> /\ store[1].refCount = 1
        /\ ~idleShutdownTimer[p]
        /\ isCoordinatorInitialized[p]

\* C9: release() with no record present leaves the store absent, arms and cancels
\* no timer, kills no process and keeps the local handle and url.
C9_ReleaseNoRecord ==
    [][\A p \in Procs :
        (ev' \in ReleaseCalls(p) /\ store = <<>>)
            => /\ store' = <<>>
               /\ UNCHANGED <<idleShutdownTimer, status, localGatewayProcess,
                              localGatewayUrl>>
               /\ sync'[p] = "none"
      ]_vars

\* An initialized invocation has just released with no record present.
C9_Witness ==
    \E p \in Procs :
        /\ ev = Event("relAbsent", p)
        /\ store = <<>>
        /\ isCoordinatorInitialized[p]

\* C10 (fresh launch): the step that ends a successful launch leaves exactly the
\* record {url, pid, refCount 1, cwd} of the launched backend in the store, returns
\* {url, isShared: true}, and the invocation holds the handle and url of that backend.
C10_FreshLaunch ==
    [][\A p \in Procs :
        /\ (ev' = Event("acqSpawn", p)) => pc'[p] = "finish" /\ spawned'[p] = NextPid
        /\ (pc[p] = "finish" /\ pc'[p] # "finish") => ev' = Event("acqFinish", p)
        /\ ev' = Event("acqFinish", p)
              => LET url == [host |-> "127.0.0.1", port |-> spawned[p]]
                 IN /\ store' # <<>>
                    /\ store'[1].url = url
                    /\ store'[1].pid = spawned[p]
                    /\ store'[1].refCount = 1
                    /\ store'[1].cwd = cwdArg[p]
                    /\ result'[p] = <<[url |-> url, isShared |-> TRUE]>>
                    /\ localGatewayProcess'[p] = spawned[p]
                    /\ localGatewayUrl'[p] = <<url>>
      ]_vars

\* A launch has just ended: fresh record, result and local handle agree.
C10_Witness ==
    \E p \in Procs :
        /\ ev = Event("acqFinish", p)
        /\ store # <<>> /\ store[1].refCount = 1 /\ store[1].cwd = CwdOf(p)
        /\ localGatewayProcess[p] = store[1].pid
        /\ localGatewayUrl[p] = <<store[1].url>>
        /\ result[p] = <<[url |-> store[1].url, isShared |-> TRUE]>>
        /\ status[store[1].pid] = "up"

\* The case of C3 in which the last release is the reuser's: its idle check has
\* cleared the record and the only backend ever spawned is still running.
C3_ReuserLeak ==
    \E p \in Procs :
        /\ ev = Event("timerClear", p)
        /\ store = <<>>
        /\ \A q \in Procs : ~idleShutdownTimer[q] /\ holding[q] = 0
        /\ Quiescent
        /\ \E b \in Pids : status[b] = "up" /\ \A c \in Pids \ {b} : status[c] = "none"

\* ------------------------------------------------- the two-invocation scenario

\* Calls are made one at a time, two acquires first and then the releases of what
\* is held; every launch may end in any of its outcomes.  Nothing else happens but
\* the idle checks the releases arm.
ScAcquire(p) ==
    \/ Quiescent /\ events < 2 /\ AcqTest(p, CwdOf(p))
    \/ Quiescent /\ events < 2 /\ AcqStart(p, CwdOf(p))
    \/ AcqProbe(p)
    \/ AcqReuse(p)
    \/ AcqLaunchThrow(p)
    \/ AcqLaunchHealthy(p)
    \/ AcqLaunchExited(p)
    \/ AcqLaunchTimeout(p)
    \/ AcqFinish(p)

ScRelease(p) ==
    \/ Quiescent /\ events >= 2 /\ holding[p] # 0 /\ RelRead(p)
    \/ RelWrite(p)

ScIdleCheck(p) ==
    \/ TimerShutdown(p)
    \/ TimerClear(p)

NextSc ==
    \/ \E p \in Procs : ScAcquire(p)
    \/ \E p \in Procs : ScRelease(p)
    \/ \E p \in Procs : ScIdleCheck(p)

SpecSc == Init /\ [][NextSc]_vars

\* The calls of the scenario that have returned: k = 1, 2 acquires, then releases.
ScAfter(k) == Quiescent /\ events = k

ScHolders == {p \in Procs : holding[p] # 0}

ScNothingPending == \A p \in Procs : ~idleShutdownTimer[p]

\* C11 (scenario): from no record, acquire, acquire while the first is held,
\* release, release leave the stored refCount at 1, 2, 1, 0 in turn; both acquires
\* return the url of the one backend spawned; the first release arms no idle check,
\* the second arms one; and once that check has run (nothing is pending any more
\* and no further acquire was made) no backend is running and the record is gone,
\* whichever invocation released last.
C11_Scenario ==
    /\ (ScAfter(1) /\ Cardinality(ScHolders) = 1)
          => store # <<>> /\ store[1].refCount = 1 /\ ScNothingPending
    /\ (ScAfter(2) /\ Cardinality(ScHolders) = 2)
          => /\ store # <<>> /\ store[1].refCount = 2
             /\ \A p, q \in Procs : result[p] = result[q]
             /\ Now = 1 /\ ScNothingPending
    /\ (ScAfter(3) /\ Cardinality(ScHolders) = 1)
          => store # <<>> /\ store[1].refCount = 1 /\ ScNothingPending
    /\ (ScAfter(4) /\ ScHolders = {} /\ \A p \in Procs : result[p] # <<>>)
          => /\ \A p \in Procs : ev = Event("relWrite", p)
                  => store # <<>> /\ store[1].refCount = 0 /\ idleShutdownTimer[p]
             /\ ScNothingPending
                  => store = <<>> /\ \A b \in Pids : ~Running(b)

\* The parts of the scenario before the idle timeout: the counts, the url, the
\* single spawn and the timers.
C11_BeforeTimeout ==
    /\ (ScAfter(1) /\ Cardinality(ScHolders) = 1)
          => store # <<>> /\ store[1].refCount = 1 /\ ScNothingPending
    /\ (ScAfter(2) /\ Cardinality(ScHolders) = 2)
          => /\ store # <<>> /\ store[1].refCount = 2
             /\ \A p, q \in Procs : result[p] = result[q]
             /\ Now = 1 /\ ScNothingPending
    /\ (ScAfter(3) /\ Cardinality(ScHolders) = 1)
          => store # <<>> /\ store[1].refCount = 1 /\ ScNothingPending
    /\ (ScAfter(4) /\ ScHolders = {} /\ \A p \in Procs : result[p] # <<>>)
          => \A p \in Procs : ev = Event("relWrite", p)
                  => store # <<>> /\ store[1].refCount = 0 /\ idleShutdownTimer[p]

\* The scenario ended with the launcher releasing last: its idle check killed the
\* backend and cleared the record.
C11_LauncherLast ==
    \E p \in Procs :
        /\ ev = Event("timerClear", p) /\ events = 4
        /\ \A q \in Procs : result[q] # <<>>
        /\ store = <<>> /\ \E b \in Pids : status[b] = "idleKilled"

\* ------------------------------------------------------------ the getters

\* getSharedGatewayUrl(): <<>> = null
getSharedGatewayUrl(p) == localGatewayUrl[p]

\* isSharedGatewayActive()
isSharedGatewayActive(p) == localGatewayProcess[p] # 0 /\ localGatewayUrl[p] # <<>>

\* C12 (shutdown is unconditional): whatever the state and the stored refCount,
\* the step of shutdown() leaves no idle timer pending in the invocation, no record
\* in the store and no handle or url in the invocation (isActive() false, getUrl()
\* null); and a running backend is terminated by it exactly when the invocation
\* holds its handle, that is, launched it: a reuser's shutdown kills no process.
C12_ShutdownUnconditional ==
    [][\A p \in Procs :
        ev' = Event("shutdown", p)
            => /\ ~idleShutdownTimer'[p]
               /\ store' = <<>>
               /\ ~isSharedGatewayActive(p)'
               /\ getSharedGatewayUrl(p)' = <<>>
               /\ localGatewayProcess'[p] = 0
               /\ \A b \in Pids :
                     Running(b) => (~Running(b)' <=> localGatewayProcess[p] = b)
               /\ \A b \in Pids : localGatewayProcess[p] # b => status'[b] = status[b]
      ]_vars

\* A reuser has just shut down while the launcher still held the backend: the
\* record is gone, the backend runs on.
C12_Witness ==
    \E p \in Procs : \E q \in Procs \ {p} :
        /\ ev = Event("shutdown", p)
        /\ store = <<>>
        /\ result[p] # <<>> /\ result[p] = result[q]
        /\ holding[q] # 0 /\ localGatewayProcess[q] = holding[q]
        /\ status[holding[q]] = "up"
        /\ ~isSharedGatewayActive(p) /\ ~idleShutdownTimer[p]

\* The launcher has just shut down with an idle check pending: the timer is
\* cancelled, the backend killed.
C12_LauncherWitness ==
    \E p \in Procs : \E b \in Pids :
        /\ ev = Event("shutdown", p)
        /\ store = <<>> /\ status[b] = "killed"
        /\ ~idleShutdownTimer[p] /\ ~isSharedGatewayActive(p)
        /\ result[p] = <<AcquireResult(GatewayUrl(b), TRUE)>>

\* The public operations' steps in an invocation: the calls as they begin.
PublicCalls(p) ==
    {Event(op, p) : op \in {"acqTest", "acqStart", "relSkip", "relAbsent", "relRead",
                            "shutdown"}}

\* C13 (test mode): in an invocation whose test-mode flag is set, acquire returns
\* null, and no step the invocation takes (acquire, release and shutdown are all
\* it can call; getUrl and isActive only read) spawns or kills a process, arms or
\* cancels a timer, or creates, modifies or deletes the stored record.
C13_TestModeDisables ==
    [][\A p \in Procs :
        (testMode[p] /\ ev'.p = p)
            => /\ ev' \in PublicCalls(p)
               /\ ev' = Event("acqTest", p) => result'[p] = <<>>
               /\ UNCHANGED <<store, status, timerVars, localGatewayProcess,
                              localGatewayUrl>>
               /\ getSharedGatewayUrl(p)' = <<>> /\ ~isSharedGatewayActive(p)'
      ]_vars

\* What holds of test mode: acquire returns null and touches nothing, release
\* touches nothing, and no process is spawned or killed and no timer armed by any
\* operation; shutdown alone still removes a record it finds.
C13_AllButShutdown ==
    [][\A p \in Procs :
        (testMode[p] /\ ev'.p = p)
            => /\ ev' \in PublicCalls(p)
               /\ ev' = Event("acqTest", p) => result'[p] = <<>>
               /\ UNCHANGED <<status, timerVars, localGatewayProcess, localGatewayUrl>>
               /\ ev'.op # "shutdown" => UNCHANGED store
               /\ getSharedGatewayUrl(p)' = <<>> /\ ~isSharedGatewayActive(p)'
      ]_vars

\* ------------------------------------------------------ a dying invocation

\* The backends that are child processes of invocation p's live handles.
Children(p) == {localGatewayProcess[p], spawned[p]} \ {0}

\* Invocation p dies (is killed, crashes) without calling release() or shutdown():
\* its module state and its timers are gone with it, the store keeps what it
\* wrote.  A backend it spawned either dies with it or lives on as an orphan.
Crash(p) ==
    /\ CountEvent /\ UNCHANGED otherVars
    /\ pc[p] # "dead"
    /\ pc' = [pc EXCEPT ![p] = "dead"]
    /\ sync' = [sync EXCEPT ![p] = "none"]
    /\ existingInfo' = [existingInfo EXCEPT ![p] = <<>>]
    /\ cwdArg' = [cwdArg EXCEPT ![p] = <<>>]
    /\ relInfo' = [relInfo EXCEPT ![p] = <<>>]
    /\ spawned' = [spawned EXCEPT ![p] = 0]
    /\ localGatewayProcess' = [localGatewayProcess EXCEPT ![p] = 0]
    /\ localGatewayUrl' = [localGatewayUrl EXCEPT ![p] = <<>>]
    /\ idleShutdownTimer' = [idleShutdownTimer EXCEPT ![p] = FALSE]
    /\ pendingTimeouts' = [pendingTimeouts EXCEPT ![p] = 0]
    /\ isCoordinatorInitialized' = [isCoordinatorInitialized EXCEPT ![p] = FALSE]
    /\ \E orphaned \in BOOLEAN :
          status' = [b \in Pids |->
                        IF ~orphaned /\ b \in Children(p) /\ Running(b)
                        THEN "exited" ELSE status[b]]
    /\ ev' = Event("crash", p)
    /\ UNCHANGED <<store, result, holding>>

\* Invocations that acquire and release what they hold, and may die at any moment.
NextCrash ==
    \/ \E p \in Procs : Acquire(p)
    \/ \E p \in Procs : ReleaseHeld(p)
    \/ \E p \in Procs : IdleCheck(p)
    \/ \E p \in Procs : Crash(p)

SpecCrash == Init /\ [][NextCrash]_vars

\* Every invocation still alive has released what it acquired, has no call in
\* flight and no idle check pending: nothing more happens unless a new call is made.
SurvivorsDone ==
    \A q \in Procs :
        pc[q] # "dead"
            => pc[q] = "idle" /\ sync[q] = "none" /\ holding[q] = 0
               /\ pendingTimeouts[q] = 0

\* C14 (crash recovery): when an invocation died holding a reference to a backend
\* (as its launcher or as a reuser), then once every surviving invocation has
\* released and every idle check that was armed has run, with no further acquire,
\* that backend is no longer running (the claim adds: and its record is cleared).
C14_CrashRecovery ==
    \A p \in Procs :
        (pc[p] = "dead" /\ holding[p] # 0 /\ SurvivorsDone)
            => ~Running(holding[p])

\* The case of C14 in which a reuser died: the launcher, alive, has released, the
\* stored refCount stays at 1, no idle check is armed and the backend runs on.
C14_ReuserDied ==
    \E p \in Procs : \E q \in Procs \ {p} :
        /\ pc[p] = "dead" /\ holding[p] # 0
        /\ ev = Event("relWrite", q) /\ localGatewayProcess[q] = holding[p]
        /\ SurvivorsDone
        /\ store # <<>> /\ store[1].refCount = 1 /\ store[1].pid = holding[p]
        /\ status[holding[p]] = "up"

\* ------------------------------------------------- faults inside an acquire

\* ensureGatewayDir(): mkdirSync throws.
AcqDirFails(p, cwd) ==
    /\ CountEvent /\ UNCHANGED otherVars
    /\ ~testMode[p]
    /\ pc[p] = "idle" /\ sync[p] = "none" /\ holding[p] = 0
    /\ AcqFail(p, "acqNoDir")
    /\ UNCHANGED <<store, status, sync, relInfo, localGatewayProcess, localGatewayUrl,
                   timerVars, isCoordinatorInitialized, holding>>

\* allocatePort() rejects: no port could be allocated.
AcqLaunchNoPort(p) ==
    /\ UNCHANGED <<events, otherVars>>
    /\ pc[p] = "launch" /\ sync[p] = "none"
    /\ AcqFail(p, "acqNoPort")
    /\ UNCHANGED <<store, status, sync, relInfo, localGatewayProcess, localGatewayUrl,
                   timerVars, isCoordinatorInitialized, holding>>

\* The reuse branch's writeGatewayInfo throws: nothing is written, the timer is
\* not cancelled, the invocation does not become initialized.
AcqReuseWriteFails(p) ==
    /\ CountEvent /\ UNCHANGED otherVars
    /\ pc[p] = "reuse" /\ sync[p] = "none"
    /\ AcqFail(p, "acqWriteFailed")
    /\ UNCHANGED <<store, status, sync, relInfo, localGatewayProcess, localGatewayUrl,
                   timerVars, isCoordinatorInitialized, holding>>

\* startGatewayProcess has returned (handle and url are kept) and the fresh
\* record's writeGatewayInfo throws.
AcqFinishWriteFails(p) ==
    /\ CountEvent /\ UNCHANGED otherVars
    /\ pc[p] = "finish" /\ sync[p] = "none"
    /\ localGatewayProcess' = [localGatewayProcess EXCEPT ![p] = spawned[p]]
    /\ localGatewayUrl' = [localGatewayUrl EXCEPT ![p] = <<GatewayUrl(spawned[p])>>]
    /\ AcqFail(p, "acqWriteFailed")
    /\ UNCHANGED <<store, status, sync, relInfo, timerVars, isCoordinatorInitialized,
                   holding>>

AcquireFault(p) ==
    \/ AcqDirFails(p, CwdOf(p))
    \/ AcqLaunchNoPort(p)
    \/ AcqReuseWriteFails(p)
    \/ AcqFinishWriteFails(p)

\* The coordinator with every failure an acquire can meet.
NextFaults ==
    \/ \E p \in Procs : Acquire(p)
    \/ \E p \in Procs : AcquireFault(p)
    \/ \E p \in Procs : Release(p)
    \/ \E p \in Procs : IdleCheck(p)
    \/ \E p \in Procs : Shutdown(p)
    \/ \E b \in Pids : BackendExit(b)
    \/ \E b \in Pids : BackendHang(b)

SpecFaults == Init /\ [][NextFaults]_vars

\* The steps in which an error is thrown inside acquire.
AcquireFailures ==
    {"acqNoDir", "acqNoRuntime", "acqNoPort", "acqExited", "acqTimeout", "acqWriteFailed"}

\* C15 (acquire never throws): every step in which something fails inside
\* acquire (directory, runtime, port, exit during startup, startup timeout, store
\* write) ends the call with null returned; and whatever step ends an acquire,
\* the call has returned null or a result, never raised.
C15_AcquireNeverThrows ==
    [][\A p \in Procs :
        /\ (ev'.p = p /\ ev'.op \in AcquireFailures)
              => pc'[p] = "idle" /\ result'[p] = <<>>
        /\ (ev'.p = p /\ ev'.op \in AcquireFailures \cup {"acqTest", "acqReuse", "acqFinish"})
              => \/ result'[p] = <<>>
                 \/ DOMAIN result'[p][1] = {"url", "isShared"}
        /\ (pc[p] # "idle" /\ pc'[p] = "idle")
              => ev'.op \in AcquireFailures \cup {"acqReuse", "acqFinish"}
      ]_vars

\* The write of the fresh record has just failed after a successful launch: the
\* call returned null.
C15_Witness ==
    \E p \in Procs :
        /\ ev = Event("acqWriteFailed", p)
        /\ result[p] = <<>> /\ pc[p] = "idle"
        /\ localGatewayProcess[p] # 0 /\ status[localGatewayProcess[p]] = "up"
        /\ store = <<>>

\* ------------------------------------------- the environment of the backend

\* One launch in every environment over EnvNames, on every host.
InitEnv ==
    /\ InitCoordinator
    /\ testMode = [p \in Procs |-> FALSE]
    /\ procEnv \in [EnvNames -> EnvValues]
    /\ host \in Hosts

\* startGatewayProcess(cwd) reaches Bun.spawn.
EnvSpawn(cwd) ==
    /\ spawnArgs = <<>>
    /\ "env" \in DOMAIN spawnArgsOf(cwd, procEnv, host)
    /\ spawnArgs' = <<spawnArgsOf(cwd, procEnv, host)>>
    /\ ev' = Event("envSpawn", 0)
    /\ UNCHANGED <<store, status, pc, existingInfo, cwdArg, spawned, sync, relInfo,
                   localGatewayProcess, localGatewayUrl, timerVars,
                   isCoordinatorInitialized, result, holding, events,
                   testMode, procEnv, host, elapsed, exited, started, reviewVars>>

\* startGatewayProcess(cwd) throws before Bun.spawn: no interpreter.
EnvThrow(cwd) ==
    /\ spawnArgs = <<>>
    /\ "error" \in DOMAIN spawnArgsOf(cwd, procEnv, host)
    /\ spawnArgs' = <<spawnArgsOf(cwd, procEnv, host)>>
    /\ ev' = Event("envThrow", 0)
    /\ UNCHANGED <<store, status, pc, existingInfo, cwdArg, spawned, sync, relInfo,
                   localGatewayProcess, localGatewayUrl, timerVars,
                   isCoordinatorInitialized, result, holding, events,
                   testMode, procEnv, host, elapsed, exited, started, reviewVars>>

NextEnv ==
    \/ EnvSpawn(<<"/proj">>)
    \/ EnvThrow(<<"/proj">>)

SpecEnv == InitEnv /\ [][NextEnv]_vars

\* C16 (P5, env sanitization): whatever the invoking environment and the host,
\* the environment handed to the spawned backend (the filtered environment with
\* VIRTUAL_ENV, PATH, PYTHONPATH, PYTHONUNBUFFERED and OMP_SHELL_SNAPSHOT put in)
\* has no variable whose name is in the deny-list.
C16_NoDeniedVariable ==
    (spawnArgs # <<>> /\ "env" \in DOMAIN spawnArgs[1])
        => \A key \in DOMAIN spawnArgs[1].env : key \notin DEFAULT_ENV_DENYLIST

\* A backend was spawned from an environment in which a deny-listed variable, an
\* allow-listed one and a prefix-allowed one were all set: the latter two were
\* handed on.
C16_Witness ==
    /\ spawnArgs # <<>> /\ "env" \in DOMAIN spawnArgs[1]
    /\ procEnv[<<"OPENAI_", "API_", "KEY">>] = <<"v">>
    /\ procEnv[<<"HOME">>] = <<"v">> /\ procEnv[<<"OMP_", "DEBUG">>] = <<"v">>
    /\ <<"OPENAI_", "API_", "KEY">> \notin DOMAIN spawnArgs[1].env
    /\ {<<"HOME">>, <<"OMP_", "DEBUG">>, <<"PYTHONUNBUFFERED">>} \subseteq DOMAIN spawnArgs[1].env

\* C17 (idle check guard): the callback of an idle check that fires reads the
\* store and acts exactly when a record is present with refCount 0.  Otherwise
\* (no record, or a refCount above 0) the check kills no process and leaves the
\* store as it is.  When it acts it terminates the backend whose handle the
\* invocation holds, if any, and no other, drops the handle, and goes on to clear
\* the record.
C17_IdleCheckGuard ==
    [][\A p \in Procs :
        /\ (ev'.p = p /\ pendingTimeouts'[p] < pendingTimeouts[p]
                /\ ev'.op \in {"timerSkip", "timerShutdown"})
              => (ev'.op = "timerShutdown" <=> (store # <<>> /\ store[1].refCount = 0))
        /\ ev' = Event("timerSkip", p)
              => /\ store = <<>> \/ store[1].refCount > 0
                 /\ UNCHANGED <<store, status, localGatewayProcess, localGatewayUrl>>
                 /\ sync'[p] = "none"
        /\ ev' = Event("timerShutdown", p)
              => /\ \A b \in Pids :
                       IF b = localGatewayProcess[p] THEN ~Running(b)'
                                                     ELSE status'[b] = status[b]
                 /\ localGatewayProcess'[p] = 0 /\ localGatewayUrl'[p] = <<>>
                 /\ sync'[p] = "timer"
        /\ (sync[p] = "timer" /\ sync'[p] # "timer")
              => ev' = Event("timerClear", p) /\ store' = <<>> /\ status' = status
      ]_vars

\* An idle check has just fired and found the record re-acquired (refCount above
\* 0): the backend is running, the record is where it was.
C17_Witness ==
    \E p \in Procs :
        /\ ev = Event("timerSkip", p)
        /\ store # <<>> /\ store[1].refCount > 0
        /\ localGatewayProcess[p] = store[1].pid /\ status[store[1].pid] = "up"
        /\ ~idleShutdownTimer[p]

\* An idle check has acted: the local backend is killed, the record cleared.
C17_ActedWitness ==
    \E p \in Procs : \E b \in Pids :
        /\ ev = Event("timerClear", p)
        /\ store = <<>> /\ status[b] = "idleKilled"
        /\ localGatewayProcess[p] = 0

\* C18 (at most one pending idle timer): in every state an invocation's runtime
\* has at most one idle timeout pending, and outside the callback it has one
\* exactly when the module's handle is set.  Scheduling leaves exactly one pending
\* also when one was pending before (the one replaced is cleared and never
\* fires); cancelling (a reuse, a shutdown) leaves none; and when a timeout has
\* fired none is pending, during the callback and after it.
C18_OnePendingTimer ==
    [][\A p \in Procs :
        /\ pendingTimeouts'[p] <= 1
        /\ sync'[p] # "timer" => (idleShutdownTimer'[p] <=> pendingTimeouts'[p] = 1)
        /\ (ev' = Event("relWrite", p) /\ store'[1].refCount = 0)
              => pendingTimeouts'[p] = 1 /\ idleShutdownTimer'[p]
        /\ ev' \in {Event("acqReuse", p), Event("shutdown", p)}
              => pendingTimeouts'[p] = 0 /\ ~idleShutdownTimer'[p]
        /\ ev' = Event("timerShutdown", p) => pendingTimeouts'[p] = 0
        /\ ev' \in {Event("timerSkip", p), Event("timerClear", p)}
              => pendingTimeouts'[p] = 0 /\ ~idleShutdownTimer'[p]
      ]_vars

\* A release that read refCount 0 is about to schedule an idle check while the
\* one armed by the invocation's previous release is still pending.
C18_Witness ==
    \E p \in Procs :
        /\ sync[p] = "release" /\ relInfo[p][1].refCount = 0
        /\ idleShutdownTimer[p] /\ pendingTimeouts[p] = 1

\* ------------------------------------------------- the startup wait in steps

\* startGatewayProcess from Bun.spawn on, poll by poll.  The process spawned is
\* running and does not answer yet ("hung"); it may start to answer and it may
\* exit at any moment.  elapsed counts the polls' worth of time since startTime;
\* the wait is over at MaxPolls.

\* What the launch leaves alone.
launchFrame ==
    <<store, existingInfo, cwdArg, sync, relInfo, timerVars, isCoordinatorInitialized,
      result, holding, testMode, procEnv, host, spawnArgs, reviewVars>>

Later(t) == IF t + 1 < MaxPolls THEN t + 1 ELSE MaxPolls

\* Bun.spawn; exited = false; startTime = Date.now()
LaunchSpawn(p) ==
    /\ CountEvent
    /\ pc[p] = "idle"
    /\ NextPid \in Pids
    /\ status' = [status EXCEPT ![NextPid] = "hung"]
    /\ spawned' = [spawned EXCEPT ![p] = NextPid]
    /\ exited' = [exited EXCEPT ![p] = FALSE]
    /\ elapsed' = [elapsed EXCEPT ![p] = 0]
    /\ started' = [started EXCEPT ![p] = <<>>]
    /\ pc' = [pc EXCEPT ![p] = "loop"]
    /\ ev' = Event("launchSpawn", p)
    /\ UNCHANGED <<localGatewayProcess, localGatewayUrl, launchFrame>>

\* gatewayProcess.exited settles: exited = true.  The callback runs while the
\* launch is at an await.
ExitedCallback(p) ==
    /\ pc[p] \in {"health", "answered", "sleep"}
    /\ ~exited[p] /\ ~isPidRunning(spawned[p])
    /\ exited' = [exited EXCEPT ![p] = TRUE]
    /\ ev' = Event("exitedCallback", p)
    /\ UNCHANGED <<status, spawned, elapsed, started, pc, events,
                   localGatewayProcess, localGatewayUrl, launchFrame>>

\* The loop's head finds time left and exited false: on to the health check.
LaunchPoll(p) ==
    /\ pc[p] = "loop"
    /\ elapsed[p] < MaxPolls /\ ~exited[p]
    /\ pc' = [pc EXCEPT ![p] = "health"]
    /\ ev' = Event("launchPoll", p)
    /\ UNCHANGED <<status, spawned, elapsed, exited, started, events,
                   localGatewayProcess, localGatewayUrl, launchFrame>>

\* The loop's head finds time left and exited true: throw, nothing is killed.
LaunchExited(p) ==
    /\ pc[p] = "loop"
    /\ elapsed[p] < MaxPolls /\ exited[p]
    /\ started' = [started EXCEPT ![p] = <<[error |-> "Gateway process exited during startup"]>>]
    /\ pc' = [pc EXCEPT ![p] = "idle"]
    /\ ev' = Event("launchExited", p)
    /\ UNCHANGED <<status, spawned, elapsed, exited, events,
                   localGatewayProcess, localGatewayUrl, launchFrame>>

\* The loop's head finds the time used up: killProcessTree, throw.
LaunchTimeout(p) ==
    /\ pc[p] = "loop"
    /\ elapsed[p] >= MaxPolls
    /\ status' = killProcessTree(status, spawned[p], "killed")
    /\ started' = [started EXCEPT ![p] = <<[error |-> "Gateway startup timeout"]>>]
    /\ pc' = [pc EXCEPT ![p] = "idle"]
    /\ ev' = Event("launchTimeout", p)
    /\ UNCHANGED <<spawned, elapsed, exited, events,
                   localGatewayProcess, localGatewayUrl, launchFrame>>

\* The backend answers the request of isGatewayHealthy's fetch with ok.  The
\* response is on its way to the launch, which is still at its await.
HealthResponse(p) ==
    /\ pc[p] = "health"
    /\ isGatewayHealthy(GatewayUrl(spawned[p]))
    /\ pc' = [pc EXCEPT ![p] = "answered"]
    /\ ev' = Event("healthResponse", p)
    /\ UNCHANGED <<status, spawned, elapsed, exited, started, events,
                   localGatewayProcess, localGatewayUrl, launchFrame>>

\* The await resumes with true: keep the handle and the url, return {url, pid}.
\* exited is not read again.
LaunchHealthy(p) ==
    /\ pc[p] = "answered"
    /\ localGatewayProcess' = [localGatewayProcess EXCEPT ![p] = spawned[p]]
    /\ localGatewayUrl' = [localGatewayUrl EXCEPT ![p] = <<GatewayUrl(spawned[p])>>]
    /\ started' = [started EXCEPT ![p] = <<[url |-> GatewayUrl(spawned[p]), pid |-> spawned[p]]>>]
    /\ pc' = [pc EXCEPT ![p] = "idle"]
    /\ ev' = Event("launchHealthy", p)
    /\ UNCHANGED <<status, spawned, elapsed, exited, events, launchFrame>>

\* isGatewayHealthy answers false, at once or after its own timeout: Bun.sleep.
LaunchUnhealthy(p) ==
    /\ pc[p] = "health"
    /\ ~isGatewayHealthy(GatewayUrl(spawned[p]))
    /\ \E t \in {elapsed[p], Later(elapsed[p])} : elapsed' = [elapsed EXCEPT ![p] = t]
    /\ pc' = [pc EXCEPT ![p] = "sleep"]
    /\ ev' = Event("launchUnhealthy", p)
    /\ UNCHANGED <<status, spawned, exited, started, events,
                   localGatewayProcess, localGatewayUrl, launchFrame>>

\* await Bun.sleep(100) is over: back to the loop's head.
LaunchSleep(p) ==
    /\ pc[p] = "sleep"
    /\ elapsed' = [elapsed EXCEPT ![p] = Later(elapsed[p])]
    /\ pc' = [pc EXCEPT ![p] = "loop"]
    /\ ev' = Event("launchSleep", p)
    /\ UNCHANGED <<status, spawned, exited, started, events,
                   localGatewayProcess, localGatewayUrl, launchFrame>>

\* The backend spawned starts to answer its control API.
BackendReady(b) ==
    /\ status[b] = "hung"
    /\ \E p \in Procs : spawned[p] = b /\ pc[p] # "idle"
    /\ status' = [status EXCEPT ![b] = "up"]
    /\ ev' = Event("backendReady", 0)
    /\ UNCHANGED <<spawned, elapsed, exited, started, pc, events,
                   localGatewayProcess, localGatewayUrl, launchFrame>>

LaunchStep(p) ==
    \/ LaunchPoll(p)
    \/ LaunchExited(p)
    \/ LaunchTimeout(p)
    \/ HealthResponse(p)
    \/ LaunchHealthy(p)
    \/ LaunchUnhealthy(p)
    \/ LaunchSleep(p)

InitLaunch ==
    /\ InitCoordinator
    /\ testMode = [p \in Procs |-> FALSE]
    /\ procEnv = [k \in EnvNames |-> Undefined]
    /\ host = [dotVenv |-> FALSE, venv |-> FALSE, venvPython |-> FALSE, which |-> TRUE,
               snapshot |-> FALSE]

NextLaunch ==
    \/ \E p \in Procs : LaunchSpawn(p)
    \/ \E p \in Procs : LaunchStep(p)
    \/ \E p \in Procs : ExitedCallback(p)
    \/ \E b \in Pids : BackendReady(b)
    \/ \E b \in Pids : BackendExit(b)

SpecLaunch == InitLaunch /\ [][NextLaunch]_vars

\* The event loop resumes a launch at every await.
FairSpecLaunch == SpecLaunch /\ \A p \in Procs : WF_vars(LaunchStep(p))

\* A step ends invocation p's launch.
LaunchEnds(p) == pc[p] # "idle" /\ pc'[p] = "idle"

\* The step ends p's launch in one of the three ways: (a) the health check was
\* answered ok and {url, pid} of the backend spawned is returned; (b) the startup
\* timeout has elapsed, the tree of the spawned process is killed and the timeout
\* error is raised; (c) the exit of the process was observed and the loop's head
\* raises the launch-failure error with time still left.
LaunchOutcome(p) ==
    \/ /\ ev' = Event("launchHealthy", p)
       /\ started'[p] = <<[url |-> GatewayUrl(spawned[p]), pid |-> spawned[p]]>>
       /\ localGatewayProcess'[p] = spawned[p]
       /\ status' = status
    \/ /\ ev' = Event("launchTimeout", p)
       /\ started'[p] = <<[error |-> "Gateway startup timeout"]>>
       /\ elapsed[p] >= MaxPolls
       /\ ~Running(spawned[p])'
    \/ /\ ev' = Event("launchExited", p)
       /\ started'[p] = <<[error |-> "Gateway process exited during startup"]>>
       /\ exited[p] /\ ~Running(spawned[p])
       /\ elapsed[p] < MaxPolls

\* C19 (launch outcomes): every launch ends, and ends in exactly one of the three
\* outcomes; no outcome is reported before the end; a loop head that finds the
\* exit observed and time left raises the failure instead of polling on; and no
\* launch is reported successful while the exit of its process has been observed.
C19_LaunchOutcomes ==
    /\ [][\A p \in Procs :
            /\ LaunchEnds(p) => LaunchOutcome(p)
            /\ (pc[p] = "loop" /\ ev'.p = p /\ exited[p] /\ elapsed[p] < MaxPolls)
                  => ev' = Event("launchExited", p)
            /\ (pc'[p] # "idle" /\ ev'.p = p) => started'[p] = <<>>
            /\ ev' = Event("launchHealthy", p) => ~exited[p]
       ]_vars
    /\ \A p \in Procs : (pc[p] # "idle") ~> (pc[p] = "idle")

\* What holds of C19: termination, the three outcomes, the failure at the next
\* loop head.
C19_ThreeOutcomes ==
    /\ [][\A p \in Procs :
            /\ LaunchEnds(p) => LaunchOutcome(p)
            /\ (pc[p] = "loop" /\ ev'.p = p /\ exited[p] /\ elapsed[p] < MaxPolls)
                  => ev' = Event("launchExited", p)
            /\ (pc'[p] # "idle" /\ ev'.p = p) => started'[p] = <<>>
       ]_vars
    /\ \A p \in Procs : (pc[p] # "idle") ~> (pc[p] = "idle")

\* A launch has just returned {url, pid} of a process whose exit it had observed.
C19_SuccessAfterExit ==
    \E p \in Procs :
        /\ ev = Event("launchHealthy", p) /\ exited[p]
        /\ status[spawned[p]] = "exited"
        /\ started[p] = <<[url |-> GatewayUrl(spawned[p]), pid |-> spawned[p]]>>

\* A launch has just failed because the process exited, before the timeout.
C19_ExitedOutcome ==
    \E p \in Procs :
        /\ ev = Event("launchExited", p)
        /\ elapsed[p] < MaxPolls /\ exited[p]
        /\ started[p] = <<[error |-> "Gateway process exited during startup"]>>

\* A launch has just timed out and its process is killed.
C19_TimeoutOutcome ==
    \E p \in Procs :
        /\ ev = Event("launchTimeout", p) /\ status[spawned[p]] = "killed"

\* C20 (cleanup on every failed launch): the step that reports a failed launch,
\* by startup timeout or by the process having exited during startup, has killed
\* the process tree of the spawned backend.
C20_FailedLaunchCleanup ==
    [][\A p \in Procs :
        ev' \in {Event("launchTimeout", p), Event("launchExited", p)}
            => status'[spawned[p]] = "killed"
      ]_vars

\* The half of C20 that holds: a launch that fails by timeout has killed the tree.
C20_TimeoutCleanup ==
    [][\A p \in Procs :
        ev' = Event("launchTimeout", p) => status'[spawned[p]] = "killed"
      ]_vars

\* ------------------------------------------------------------ launch race

\* Invocation q has completed an acquire that launched the backend it still has the
\* handle of, and that backend runs.
Launched(q) ==
    /\ pc[q] = "idle" /\ localGatewayProcess[q] # 0
    /\ result[q] = <<AcquireResult(GatewayUrl(localGatewayProcess[q]), TRUE)>>
    /\ Running(localGatewayProcess[q])

\* The running backends that the stored record does not name.
Orphans == {b \in Pids : Running(b) /\ (store = <<>> \/ store[1].pid # b)}

\* C21 (launch race): when two invocations each launched a backend (the only two
\* ever spawned) and the second acquire completes, the store holds the record the
\* second one writes, with refCount 1; the first one's backend still runs and the
\* record does not point at it; and it is the only running backend without a record.
C21_LaunchRace ==
    [][\A p \in Procs : \A q \in Procs \ {p} :
        (/\ ev' = Event("acqFinish", p)
         /\ Launched(q)
         /\ {b \in Pids : status[b] # "none"} = {spawned[p], localGatewayProcess[q]})
            => /\ store' = <<GatewayInfo(GatewayUrl(spawned[p]), spawned[p],
                                         store'[1].startedAt, 1, cwdArg[p])>>
               /\ result'[p] = <<AcquireResult(GatewayUrl(spawned[p]), TRUE)>>
               /\ store'[1].pid # localGatewayProcess[q]
               /\ Orphans' = {localGatewayProcess[q]}
      ]_vars

\* Both acquires of a race have completed: two backends run, each invocation has
\* the handle and the url of its own, the record is the second one's.
C21_Witness ==
    \E p \in Procs : \E q \in Procs \ {p} :
        /\ ev = Event("acqFinish", p)
        /\ Launched(p) /\ Launched(q)
        /\ localGatewayProcess[p] # localGatewayProcess[q]
        /\ store # <<>> /\ store[1].pid = localGatewayProcess[p] /\ store[1].refCount = 1
        /\ holding[p] # 0 /\ holding[q] # 0
        /\ Orphans = {localGatewayProcess[q]}

\* --------------------------------------------------------- record lifecycle

\* C22 (record lifecycle): a record comes into existence only by the step that
\* completes a launching acquire, with refCount 1; a record is deleted only by
\* shutdown(), by an idle check that found refCount 0 or by an acquire that found it
\* stale; and the write of a reusing acquire or of a release rewrites the record
\* that is in the store, changing nothing but its refCount.
C22_RecordLifecycle ==
    [][/\ (store = <<>> /\ store' # <<>>)
            => \E p \in Procs : ev' = Event("acqFinish", p) /\ store'[1].refCount = 1
       /\ (store # <<>> /\ store' = <<>>)
            => \E p \in Procs :
                  ev' \in {Event("shutdown", p), Event("timerClear", p), Event("acqStale", p)}
       /\ \A p \in Procs :
            ev' \in {Event("acqReuse", p), Event("relWrite", p)}
                => /\ store # <<>> /\ store' # <<>>
                   /\ store' = <<[store[1] EXCEPT !.refCount = store'[1].refCount]>>
      ]_vars

\* What holds of C22: the launch writes refCount 1, and only the three deleting
\* steps ever remove a record.
C22_Deletions ==
    [][/\ \A p \in Procs : ev' = Event("acqFinish", p) => store'[1].refCount = 1
       /\ (store # <<>> /\ store' = <<>>)
            => \E p \in Procs :
                  ev' \in {Event("shutdown", p), Event("timerClear", p), Event("acqStale", p)}
      ]_vars

\* A reusing acquire has just written a record into a store that held none.
C22_ReuseCreates ==
    \E p \in Procs :
        /\ ev = Event("acqReuse", p)
        /\ store # <<>> /\ store[1].refCount = 2 /\ ~Running(store[1].pid)
        /\ \E q \in Procs \ {p} : ~isCoordinatorInitialized[q] /\ result[q] # <<>>

\* ------------------------------------------------------ process-local state

\* The handle and the url of invocation p change only when p's own launch completes
\* (to the backend it spawned) or p shuts its local backend down (to null); and a
\* step of p ends a backend only through the handle p holds or, on the startup
\* timeout, through the process it has just spawned.
HandleOnlyByLaunch(p) ==
    /\ localGatewayProcess'[p] # localGatewayProcess[p]
          => \/ /\ ev' = Event("acqFinish", p)
                /\ localGatewayProcess'[p] = spawned[p]
                /\ localGatewayUrl'[p] = <<GatewayUrl(spawned[p])>>
             \/ /\ ev' \in {Event("shutdown", p), Event("timerShutdown", p)}
                /\ localGatewayProcess'[p] = 0 /\ localGatewayUrl'[p] = <<>>
    /\ (localGatewayUrl'[p] # <<>>)
          = (localGatewayProcess'[p] # 0)
    /\ \A b \in Pids :
          (ev'.p = p /\ status'[b] \in {"killed", "idleKilled"} /\ status'[b] # status[b])
              => b = localGatewayProcess[p] \/ ev' = Event("acqTimeout", p)

\* C23 (process-local ownership): the handle and the url are held, and a backend is
\* killed, only by the invocation that launched it; and an idle-shutdown timer is
\* armed only in an invocation that holds the handle of a backend it launched, so
\* an invocation that only reused a backend holds none of the three.
C23_ProcessLocalOwnership ==
    [][\A p \in Procs :
        /\ HandleOnlyByLaunch(p)
        /\ (idleShutdownTimer'[p] /\ ev' = Event("relWrite", p))
              => localGatewayProcess[p] # 0
      ]_vars

\* What holds of C23: the handle, the url and the ability to kill.
C23_HandleOwnership == [][\A p \in Procs : HandleOnlyByLaunch(p)]_vars

\* An invocation that launched nothing and holds no handle has an idle check
\* pending for the backend it reused.
C23_ReuserTimer ==
    \E p \in Procs :
        /\ ev = Event("relWrite", p)
        /\ idleShutdownTimer[p] /\ pendingTimeouts[p] = 1
        /\ localGatewayProcess[p] = 0 /\ localGatewayUrl[p] = <<>>
        /\ store # <<>> /\ store[1].refCount = 0 /\ Running(store[1].pid)

\* ------------------------------------------------------ corrupt state file

\* The state file is damaged from outside: its content no longer parses, or it can
\* no longer be read.
StoreCorrupted(c) ==
    /\ CountEvent /\ UNCHANGED otherVars
    /\ store' = <<c>>
    /\ ev' = Event("storeCorrupted", 0)
    /\ UNCHANGED <<status, pc, existingInfo, cwdArg, spawned, sync, relInfo,
                   localGatewayProcess, localGatewayUrl, timerVars,
                   isCoordinatorInitialized, result, holding>>

NextCorrupt ==
    \/ \E p \in Procs : AcquireLive(p)
    \/ \E p \in Procs : Release(p)
    \/ \E p \in Procs : IdleCheck(p)
    \/ \E p \in Procs : Shutdown(p)
    \/ \E c \in {Unparsable, Unreadable} : StoreCorrupted(c)

SpecCorrupt == InitLaunch /\ [][NextCorrupt]_vars

\* The file exists and reading it fails.
ReadFails == existsSync /\ store[1] \in {Unparsable, Unreadable}

C24_OverwriteWitness ==
    \E p \in Procs :
        /\ ev = Event("acqFinish", p) /\ events = 2
        /\ store # <<>> /\ ~ReadFails /\ store[1].refCount = 1
        /\ store[1].pid = localGatewayProcess[p]

\* ------------------------------------------------------------ health probe

\* A running backend starts to answer its control API with an error status.
BackendFails(b) ==
    /\ CountEvent /\ UNCHANGED otherVars
    /\ status[b] = "up"
    /\ status' = [status EXCEPT ![b] = "failing"]
    /\ ev' = Event("backendFails", 0)
    /\ UNCHANGED <<store, pc, existingInfo, cwdArg, spawned, sync, relInfo,
                   localGatewayProcess, localGatewayUrl, timerVars,
                   isCoordinatorInitialized, result, holding>>

NextProbe ==
    \/ \E p \in Procs : AcquireLive(p)
    \/ \E p \in Procs : Release(p)
    \/ \E p \in Procs : IdleCheck(p)
    \/ \E b \in Pids : BackendExit(b)
    \/ \E b \in Pids : BackendHang(b)
    \/ \E b \in Pids : BackendFails(b)

SpecProbe == InitLaunch /\ [][NextProbe]_vars

\* C25 (the probe never fails its caller): the probe of an acquire is true exactly
\* when the recorded backend answers with a successful response; on every other
\* outcome (connection refused, error status, no answer within the timeout) it is
\* false, and the acquire then neither returns nor raises: it goes on to discard
\* the record and from there into the launch.
C25_ProbeNeverFails ==
    [][\A p \in Procs :
        /\ ev' = Event("acqProbe", p)
              => /\ (pc'[p] = "reuse") = (status[existingInfo[p][1].pid] = "up")
                 /\ (pc'[p] = "stale") = (status[existingInfo[p][1].pid] # "up")
                 /\ result'[p] = <<>> /\ store' = store /\ status' = status
        /\ ev' = Event("acqStale", p)
              => pc'[p] = "launch" /\ result'[p] = <<>> /\ store' = <<>>
      ]_vars

\* A probe has just been answered with an error status by a running backend, and
\* the acquire goes on to the stale path.
C25_Witness ==
    \E p \in Procs :
        /\ ev = Event("acqProbe", p) /\ pc[p] = "stale"
        /\ status[existingInfo[p][1].pid] = "failing"

\* The other false outcomes: no answer in time, connection refused.
C25_TimeoutWitness ==
    \E p \in Procs :
        /\ ev = Event("acqProbe", p) /\ pc[p] = "stale"
        /\ fetch(existingInfo[p][1].url) = [error |-> "AbortError"]

\* ------------------------------------------------------- kill that fails

\* killProcessTree throws: nothing is ended.  In shutdownLocalGateway the catch
\* clause logs it and the handle and the url are dropped all the same.

\* The idle callback finds refCount 0 and the kill inside shutdownLocalGateway throws.
\* Were the error to leave shutdownLocalGateway, the callback would end there.
TimerShutdownKillFails_Propagates(p) ==
    /\ CountEvent /\ UNCHANGED otherVars
    /\ pendingTimeouts[p] > 0 /\ sync[p] = "none"
    /\ readGatewayInfo # <<>> /\ readGatewayInfo[1].refCount = 0
    /\ localGatewayProcess[p] # 0
    /\ pendingTimeouts' = fireTimeout(pendingTimeouts, p)
    /\ ev' = Event("timerKillFails", p)
    /\ UNCHANGED <<store, status, pc, existingInfo, cwdArg, spawned, sync, relInfo,
                   localGatewayProcess, localGatewayUrl, idleShutdownTimer,
                   isCoordinatorInitialized, result, holding>>

TimerShutdownKillFails(p) ==
    /\ CountEvent /\ UNCHANGED otherVars
    /\ pendingTimeouts[p] > 0 /\ sync[p] = "none"
    /\ readGatewayInfo # <<>> /\ readGatewayInfo[1].refCount = 0
    /\ localGatewayProcess[p] # 0
    /\ pendingTimeouts' = fireTimeout(pendingTimeouts, p)
    /\ localGatewayProcess' = [localGatewayProcess EXCEPT ![p] = 0]
    /\ localGatewayUrl' = [localGatewayUrl EXCEPT ![p] = <<>>]
    /\ sync' = [sync EXCEPT ![p] = "timer"]
    /\ ev' = Event("timerKillFails", p)
    /\ UNCHANGED <<store, status, pc, existingInfo, cwdArg, spawned, relInfo,
                   idleShutdownTimer, isCoordinatorInitialized, result, holding>>

\* shutdownSharedGateway() with the kill inside shutdownLocalGateway throwing.
ShutdownKillFails(p) ==
    /\ CountEvent /\ UNCHANGED otherVars
    /\ pc[p] = "idle" /\ sync[p] = "none"
    /\ localGatewayProcess[p] # 0
    /\ idleShutdownTimer' = cancelIdleShutdown(p)
    /\ pendingTimeouts' = cancelIdleShutdownTimeouts(p)
    /\ store' = IF readGatewayInfo # <<>> THEN clearGatewayInfo ELSE store
    /\ localGatewayProcess' = [localGatewayProcess EXCEPT ![p] = 0]
    /\ localGatewayUrl' = [localGatewayUrl EXCEPT ![p] = <<>>]
    /\ isCoordinatorInitialized' = [isCoordinatorInitialized EXCEPT ![p] = FALSE]
    /\ holding' = [holding EXCEPT ![p] = 0]
    /\ ev' = Event("shutdownKillFails", p)
    /\ UNCHANGED <<status, pc, existingInfo, cwdArg, spawned, sync, relInfo, result>>

\* The startup timeout, and killProcessTree throws in place of the timeout error:
\* the process spawned stays, acquire's catch clause takes the error.
AcqLaunchTimeoutKillFails(p) ==
    /\ UNCHANGED <<events, otherVars>>
    /\ pc[p] = "launch" /\ sync[p] = "none"
    /\ NextPid \in Pids
    /\ status' = [status EXCEPT ![NextPid] = "hung"]
    /\ AcqFail(p, "acqTimeoutKillFails")
    /\ UNCHANGED <<store, sync, relInfo, localGatewayProcess, localGatewayUrl,
                   timerVars, isCoordinatorInitialized, holding>>

KillFails(p) ==
    \/ TimerShutdownKillFails(p)
    \/ ShutdownKillFails(p)
    \/ AcqLaunchTimeoutKillFails(p)

NextKill ==
    \/ \E p \in Procs : AcquireLive(p)
    \/ \E p \in Procs : Release(p)
    \/ \E p \in Procs : IdleCheck(p)
    \/ \E p \in Procs : Shutdown(p)
    \/ \E p \in Procs : KillFails(p)

SpecKill == InitLaunch /\ [][NextKill]_vars

\* C26 (kill failures are swallowed): an idle check whose kill fails drops the
\* handle and the url and goes on to clear the record; shutdown() whose kill fails
\* clears the record, drops the handle and the url and completes; an acquire whose
\* kill fails on the startup timeout returns null; and the process is left as it was.
C26_KillFailuresSwallowed ==
    [][\A p \in Procs :
        /\ ev' = Event("timerKillFails", p)
              => /\ localGatewayProcess'[p] = 0 /\ localGatewayUrl'[p] = <<>>
                 /\ sync'[p] = "timer" /\ status' = status
        /\ ev' = Event("timerClear", p)
              => store' = <<>> /\ ~idleShutdownTimer'[p] /\ sync'[p] = "none"
        /\ ev' = Event("shutdownKillFails", p)
              => /\ store' = <<>>
                 /\ localGatewayProcess'[p] = 0 /\ localGatewayUrl'[p] = <<>>
                 /\ ~isCoordinatorInitialized'[p] /\ ~idleShutdownTimer'[p]
                 /\ status' = status
        /\ ev' = Event("acqTimeoutKillFails", p)
              => result'[p] = <<>> /\ pc'[p] = "idle" /\ store' = store
      ]_vars

\* The kill of an idle check has just failed: the backend of the record runs, the
\* handle is gone and the callback is about to clear the record.
C26_Witness ==
    \E p \in Procs :
        /\ ev = Event("timerKillFails", p)
        /\ sync[p] = "timer" /\ localGatewayProcess[p] = 0
        /\ store # <<>> /\ Running(store[1].pid)

\* The two other cases: shutdown() with a failed kill, the startup timeout with one.
C26_ShutdownWitness ==
    \E p \in Procs :
        /\ ev = Event("shutdownKillFails", p)
        /\ store = <<>> /\ \E b \in Pids : Running(b)

C26_TimeoutWitness ==
    \E p \in Procs :
        /\ ev = Event("acqTimeoutKillFails", p)
        /\ result[p] = <<>> /\ \E b \in Pids : status[b] = "hung"

\* ------------------------------------------------- the filter's reference

\* The names of env that are defined, not denied, and allowed by name or by prefix.
PassingNames(env) ==
    {k \in DOMAIN env :
        /\ env[k] # Undefined
        /\ k \notin DEFAULT_ENV_DENYLIST
        /\ \/ k \in DEFAULT_ENV_ALLOWLIST
           \/ \E i \in 1..Len(k) : SubSeq(k, 1, i) \in DEFAULT_ENV_ALLOW_PREFIXES}

\* C27 (the filter is the restriction): for every environment over the names
\* checked, filterEnv(env) has exactly the names of env that are defined, not in
\* the deny-list and either in the allow-list or beginning with an allowed prefix,
\* each with the value it has in env.
C27_FilterIsRestriction ==
    /\ DOMAIN filterEnv(procEnv) = PassingNames(procEnv)
    /\ \A k \in DOMAIN filterEnv(procEnv) : filterEnv(procEnv)[k] = procEnv[k]
    /\ DOMAIN filterEnv(procEnv) \subseteq DOMAIN procEnv

\* The environment handed to a backend was filtered from one with a denied name,
\* a name allowed by prefix only, a name of neither list and an allowed name set
\* to the empty string.
C27_Witness ==
    /\ spawnArgs # <<>> /\ "env" \in DOMAIN spawnArgs[1]
    /\ procEnv[<<"OPENAI_", "API_", "KEY">>] = <<"v">>
    /\ procEnv[<<"OMP_", "DEBUG">>] = <<"v">>
    /\ procEnv[<<"SECRET">>] = <<"v">>
    /\ procEnv[<<"HOME">>] = Empty
    /\ DOMAIN filterEnv(procEnv) = {<<"OMP_", "DEBUG">>, <<"HOME">>}

\* ------------------------------------------------------ runtime resolution

\* The virtual environment by the order of resolution: VIRTUAL_ENV when it is set
\* to a path, else cwd/.venv or cwd/venv when it exists, else none.
ChosenVenv(cwd) ==
    IF truthy(procEnv[<<"VIRTUAL_", "ENV">>]) THEN procEnv[<<"VIRTUAL_", "ENV">>]
    ELSE IF host.dotVenv THEN join(cwd, ".venv")
    ELSE IF host.venv THEN join(cwd, "venv")
    ELSE Undefined

\* The search path with the virtual environment's binary directory in front.
PrependedPath(venvPath) ==
    IF truthy(procEnv[<<"PATH">>])
    THEN delimited(join(venvPath, "bin"), procEnv[<<"PATH">>])
    ELSE join(venvPath, "bin")

\* C28 (runtime resolution): the virtual environment is chosen in the order
\* VIRTUAL_ENV, conventional subdirectory of cwd, none; whenever one is chosen and
\* the backend is spawned, VIRTUAL_ENV in the backend's environment is its path
\* and PATH begins with its binary directory; with none chosen the interpreter is
\* the one on the search path; and the resolution throws only when neither the
\* chosen environment nor the search path has an interpreter.
C28_RuntimeResolution ==
    spawnArgs # <<>> =>
        LET a == spawnArgs[1]
            venvPath == ChosenVenv(<<"/proj">>)
        IN /\ ("error" \in DOMAIN a)
                 = (~(venvPath # Undefined /\ host.venvPython) /\ ~host.which)
           /\ ("env" \in DOMAIN a /\ venvPath # Undefined)
                 => /\ get(a.env, <<"VIRTUAL_", "ENV">>) = venvPath
                    /\ get(a.env, <<"PATH">>) = PrependedPath(venvPath)
           /\ ("env" \in DOMAIN a /\ venvPath = Undefined)
                 => /\ a.pythonPath = <<"python">>
                    /\ get(a.env, <<"PATH">>) = procEnv[<<"PATH">>]
                    /\ ~truthy(get(a.env, <<"VIRTUAL_", "ENV">>))

\* What holds of C28: the same with the binary directory prepended only when the
\* chosen environment has an interpreter, and with a VIRTUAL_ENV set to the empty
\* string standing for "none" even where a conventional subdirectory exists.
C28_WithInterpreter ==
    spawnArgs # <<>> =>
        LET a == spawnArgs[1]
            given == procEnv[<<"VIRTUAL_", "ENV">>] # Undefined
            venvPath == IF given THEN procEnv[<<"VIRTUAL_", "ENV">>]
                               ELSE ChosenVenv(<<"/proj">>)
            used == truthy(venvPath) /\ host.venvPython
        IN /\ ("error" \in DOMAIN a) = (~used /\ ~host.which)
           /\ ("env" \in DOMAIN a /\ truthy(venvPath))
                 => get(a.env, <<"VIRTUAL_", "ENV">>) = venvPath
           /\ ("env" \in DOMAIN a /\ used)
                 => /\ a.pythonPath = join(join(venvPath, "bin"), "python")
                    /\ get(a.env, <<"PATH">>) = PrependedPath(venvPath)
           /\ ("env" \in DOMAIN a /\ ~used)
                 => /\ a.pythonPath = <<"python">>
                    /\ get(a.env, <<"PATH">>) = procEnv[<<"PATH">>]

\* A backend was spawned with VIRTUAL_ENV naming cwd/.venv, the interpreter of the
\* search path and a PATH without the environment's binary directory.
C28_HalfApplied ==
    /\ spawnArgs # <<>> /\ "env" \in DOMAIN spawnArgs[1]
    /\ host.dotVenv /\ ~host.venvPython
    /\ spawnArgs[1].pythonPath = <<"python">>
    /\ get(spawnArgs[1].env, <<"VIRTUAL_", "ENV">>) = join(<<"/proj">>, ".venv")
    /\ get(spawnArgs[1].env, <<"PATH">>) = <<"v">>

\* A backend was spawned with no virtual environment although cwd/.venv exists with
\* an interpreter: VIRTUAL_ENV was set to the empty string.
C28_EmptyVirtualEnv ==
    /\ spawnArgs # <<>> /\ "env" \in DOMAIN spawnArgs[1]
    /\ procEnv[<<"VIRTUAL_", "ENV">>] = Empty
    /\ host.dotVenv /\ host.venvPython
    /\ spawnArgs[1].pythonPath = <<"python">>

\* ------------------------------------------------ leak by record clearing

\* C29 (no leak through record clearing): whenever an idle check clears the
\* record, the backend the record names is no longer running.
C29_NoLeakByClearing ==
    [][\A p \in Procs :
        (ev' = Event("timerClear", p) /\ store # <<>>)
            => status'[store[1].pid] \notin {"up", "hung", "failing"}
      ]_vars

\* The same for the idle checks of the invocation that holds the handle of the
\* backend the record names: these end it before the record is cleared.
C29_LauncherClears ==
    [][\A p \in Procs :
        (ev' = Event("timerShutdown", p) /\ localGatewayProcess[p] = store[1].pid)
            => status'[store[1].pid] \notin {"up", "hung", "failing"}
      ]_vars

\* The idle check of an invocation that holds no handle has just cleared the
\* record of a backend that runs on.
C29_Leaked ==
    \E p \in Procs : \E b \in Pids :
        /\ ev = Event("timerClear", p) /\ store = <<>>
        /\ Running(b) /\ localGatewayProcess[p] = 0
        /\ \E q \in Procs \ {p} : localGatewayProcess[q] = b

\* ---------------------------------------------------- the grace period

\* Calls are made one at a time in the order acquire, release, acquire, release,
\* each release by the invocation that holds; the idle checks armed by the
\* releases fire whenever the runtime runs them.
GrAcquire(p) ==
    \/ Quiescent /\ events \in {0, 2} /\ AcqTest(p, CwdOf(p))
    \/ Quiescent /\ events \in {0, 2} /\ AcqStart(p, CwdOf(p))
    \/ AcqProbe(p)
    \/ AcqReuse(p)
    \/ AcqLaunchThrow(p)
    \/ AcqLaunchHealthy(p)
    \/ AcqLaunchExited(p)
    \/ AcqLaunchTimeout(p)
    \/ AcqFinish(p)

GrRelease(p) ==
    \/ Quiescent /\ events \in {1, 3} /\ holding[p] # 0 /\ RelRead(p)
    \/ RelWrite(p)

NextGrace ==
    \/ \E p \in Procs : GrAcquire(p)
    \/ \E p \in Procs : GrRelease(p)
    \/ \E p \in Procs : IdleCheck(p)

SpecGrace == Init /\ [][NextGrace]_vars

\* C30 (the grace period restarts): when, after an invocation's release armed its
\* idle check, another invocation acquired the backend and released it again, so
\* that the other's idle check is the one armed at the latest return to refCount 0
\* and is still to come, the earlier-armed check does not end the backend.
C30_GraceRestarts ==
    [][\A p \in Procs :
        (ev' = Event("timerShutdown", p) /\ status' # status)
            => \A q \in Procs \ {p} : pendingTimeouts[q] = 0 /\ sync[q] # "timer"
      ]_vars

\* The earlier-armed check of the launcher has just ended the backend that the
\* other invocation released last, while the other's own check is pending.
C30_EarlyKill ==
    \E p \in Procs : \E q \in Procs \ {p} :
        /\ ev = Event("timerShutdown", p) /\ events = 4
        /\ pendingTimeouts[q] = 1 /\ idleShutdownTimer[q]
        /\ store # <<>> /\ store[1].refCount = 0 /\ status[store[1].pid] = "idleKilled"

\* Within one invocation the grace period does restart: a release that arms the
\* idle check clears the one armed before.
C30_OwnTimerRestarts ==
    [][\A p \in Procs :
        (ev' = Event("relWrite", p) /\ idleShutdownTimer'[p]) => pendingTimeouts'[p] = 1
      ]_vars

\* ------------------------------------------- reuse and release keep the record

\* Two records name the same backend launch: every field but refCount agrees.
SameButRefCount(a, b) ==
    /\ DOMAIN a = DOMAIN b
    /\ \A f \in DOMAIN a \ {"refCount"} : a[f] = b[f]

\* C31 (reuse and release change only the counter): the write of a reusing acquire
\* and the write of a release leave a record whose url, pid, startedAt and cwd are
\* those of the record the call read, whatever is in the store at the moment of
\* the write and whatever cwd the acquire was called with; only refCount differs
\* (one more for the reuse, one less and not below 0 for the release).
C31_OnlyCounterChanges ==
    [][\A p \in Procs :
        /\ ev' = Event("acqReuse", p)
              => /\ store' # <<>>
                 /\ SameButRefCount(store'[1], existingInfo[p][1])
                 /\ store'[1].refCount = existingInfo[p][1].refCount + 1
        /\ ev' = Event("relWrite", p)
              => /\ store' # <<>>
                 /\ SameButRefCount(store'[1], relInfo[p][1])
                 /\ store'[1].refCount \in {relInfo[p][1].refCount - 1, 0}
      ]_vars

\* An invocation has just reused the backend another invocation launched from
\* another working directory: the record still carries the launcher's cwd and the
\* launch's startedAt, although a later backend launch has moved the clock on.
C31_Witness ==
    \E p \in Procs :
        /\ ev = Event("acqReuse", p)
        /\ store # <<>> /\ store[1].cwd # CwdOf(p) /\ store[1].refCount = 2
        /\ store[1].startedAt # Now

\* ------------------------------------------- release without an acquisition

\* Everything a release could touch: the store, the backends, the invocations'
\* module variables and timeouts.
releaseReach ==
    <<store, status, localGatewayProcess, localGatewayUrl, idleShutdownTimer,
      pendingTimeouts, isCoordinatorInitialized, sync, relInfo, pc, result>>

\* C32 (release without an acquisition is a no-op): isCoordinatorInitialized is
\* false at the start, becomes true exactly in the steps that end an acquire with
\* a result and false exactly in shutdown(), so it is false exactly in an
\* invocation that has not acquired successfully since its start or its last
\* shutdown(); no failed acquire changes it.  A release called in such an
\* invocation returns at once, record or no record: the store (and so every
\* count in it) is as before, no timeout is armed or cancelled, nothing is killed.
C32_UnmatchedReleaseNoOp ==
    /\ \A p \in Procs : ~isCoordinatorInitialized[p]
    /\ [][\A p \in Procs :
            /\ (ev' \in {Event("acqReuse", p), Event("acqFinish", p)})
                  => isCoordinatorInitialized'[p] /\ result'[p] # <<>>
            /\ ev' = Event("shutdown", p) => ~isCoordinatorInitialized'[p]
            /\ (isCoordinatorInitialized'[p] # isCoordinatorInitialized[p])
                  => ev' \in {Event("acqReuse", p), Event("acqFinish", p),
                              Event("shutdown", p)}
            /\ (ev'.p = p /\ ev'.op \in AcquireFailures \cup {"acqTest"})
                  => /\ result'[p] = <<>>
                     /\ isCoordinatorInitialized'[p] = isCoordinatorInitialized[p]
            /\ (ev' \in ReleaseCalls(p) /\ ~isCoordinatorInitialized[p])
                  => /\ ev' = Event("relSkip", p)
                     /\ UNCHANGED releaseReach
       ]_vars

\* Invocation p's acquire failed (its launch timed out and backend 2 was killed)
\* while q launched backend 1 and holds it with refCount 1; p has just called
\* release, and the record still counts q.
C32_Witness ==
    \E p \in Procs : \E q \in Procs \ {p} :
        /\ ev = Event("relSkip", p)
        /\ ~isCoordinatorInitialized[p] /\ result[p] = <<>>
        /\ status[2] = "killed"
        /\ holding[q] = 1 /\ localGatewayProcess[q] = 1
        /\ store # <<>> /\ store[1].pid = 1 /\ store[1].refCount = 1
        /\ ~idleShutdownTimer[p]

\* ------------------------------------------------ what a failed acquire leaves

\* The backend the acquire of p now ending has spawned, 0 when it spawned none.
SpawnedBy(p) ==
    IF pc[p] = "finish" THEN spawned[p]
    ELSE IF pc[p] = "launch" /\ ev'.op \in {"acqExited", "acqTimeout"} THEN NextPid
    ELSE 0

\* The step ends p's acquire with null and leaves nothing of the call behind.
NoResidue(p) ==
    /\ result'[p] = <<>>
    /\ SpawnedBy(p) # 0 => status'[SpawnedBy(p)] \notin {"up", "hung", "failing"}
    /\ localGatewayProcess'[p] = localGatewayProcess[p]
    /\ localGatewayUrl'[p] = localGatewayUrl[p]
    /\ ~(store' # <<>> /\ SpawnedBy(p) # 0 /\ store'[1].pid = SpawnedBy(p))

\* C33 (a failed acquire leaves no residue): in every step that ends an acquire
\* with null, whatever failed (directory, runtime, port, exit during startup,
\* startup timeout, a store write before or after the launch), no backend the
\* call spawned is running, the invocation's handle and url are as before, and
\* the store has no record of a backend the call spawned.
C33_FailedAcquireNoResidue ==
    [][\A p \in Procs :
        (ev'.p = p /\ ev'.op \in AcquireFailures) => NoResidue(p)
      ]_vars

\* What holds of C33: every failure but the write of the fresh record leaves no
\* residue, and that one leaves no record.
C33_NoResidueBeforeLaunchEnd ==
    [][\A p \in Procs :
        /\ (ev'.p = p /\ ev'.op \in AcquireFailures /\ pc[p] # "finish") => NoResidue(p)
        /\ (ev'.p = p /\ ev'.op \in AcquireFailures) => store' = store
      ]_vars

\* An acquire has just returned null because the fresh record could not be
\* written: the backend it launched runs with no record, and the invocation,
\* which held nothing before, now has its handle and url.
C33_Residue ==
    \E p \in Procs :
        /\ ev = Event("acqWriteFailed", p) /\ result[p] = <<>>
        /\ localGatewayProcess[p] # 0 /\ status[localGatewayProcess[p]] = "up"
        /\ localGatewayUrl[p] = <<GatewayUrl(localGatewayProcess[p])>>
        /\ ~isCoordinatorInitialized[p]
        /\ store = <<>>

\* ------------------------------------------------- the handle of a launch

\* C34 (an invocation never loses track of a backend it launched): when a step
\* replaces the handle an invocation holds by the handle of a backend it has just
\* launched, the process of the handle replaced is no longer running.
C34_HandleNeverLost ==
    [][\A p \in Procs :
        (/\ localGatewayProcess[p] # 0
         /\ localGatewayProcess'[p] \notin {0, localGatewayProcess[p]})
            => status[localGatewayProcess[p]] \notin {"up", "hung", "failing"}
      ]_vars

\* What holds of C34: the handle is replaced only by the launch branch of an
\* acquire, and the process replaced no longer answered when that acquire probed it
\* or was no longer named by the store.
C34_ReplacedByLaunchOnly ==
    [][\A p \in Procs :
        (/\ localGatewayProcess[p] # 0
         /\ localGatewayProcess'[p] \notin {0, localGatewayProcess[p]})
            => /\ ev' = Event("acqFinish", p)
               /\ localGatewayProcess'[p] = spawned[p]
      ]_vars

\* An invocation holds the handle of its second backend while the first one it
\* launched, which stopped answering, is still running: no invocation has a
\* handle of it and the store does not name it.
C34_Lost ==
    \E p \in Procs :
        /\ ev = Event("acqFinish", p)
        /\ localGatewayProcess[p] = 2 /\ status[1] = "hung"
        /\ \A q \in Procs : localGatewayProcess[q] # 1
        /\ store # <<>> /\ store[1].pid = 2
        /\ events = 4 /\ \A q \in Procs \ {p} : result[q] = <<>> /\ ~isCoordinatorInitialized[q]

\* ------------------------------------------------- handle and url together

\* The invocation's handle or url is set by the step, or cleared by it.
HandleSet(p) ==
    \/ localGatewayProcess[p] = 0 /\ localGatewayProcess'[p] # 0
    \/ localGatewayUrl[p] = <<>> /\ localGatewayUrl'[p] # <<>>

HandleCleared(p) ==
    \/ localGatewayProcess[p] # 0 /\ localGatewayProcess'[p] = 0
    \/ localGatewayUrl[p] # <<>> /\ localGatewayUrl'[p] = <<>>

\* C35 (handle and url go together): in every state each invocation has both a
\* handle and a url, the url of the handle's backend, or neither, so isActive() is
\* true exactly when getUrl() is not null; they are set only by the step in which
\* a launch by the invocation itself has succeeded (whether or not the acquire
\* then succeeds in writing the record), and cleared only by the invocation's own
\* idle check that found refCount 0 or by its shutdown().
C35_HandleAndUrlTogether ==
    /\ [](\A p \in Procs :
            /\ (localGatewayProcess[p] # 0) <=> (localGatewayUrl[p] # <<>>)
            /\ isSharedGatewayActive(p) <=> (getSharedGatewayUrl(p) # <<>>)
            /\ localGatewayProcess[p] # 0
                  => localGatewayUrl[p] = <<GatewayUrl(localGatewayProcess[p])>>)
    /\ [][\A p \in Procs :
            /\ HandleSet(p)
                  => /\ ev' \in {Event("acqFinish", p), Event("acqWriteFailed", p)}
                     /\ pc[p] = "finish" /\ localGatewayProcess'[p] = spawned[p]
            /\ HandleCleared(p)
                  => ev' \in {Event("timerShutdown", p), Event("shutdown", p)}
       ]_vars

\* The invocation's idle check has just acted on the backend it launched: the
\* handle and the url, both set since the launch, are both null.
C35_Witness ==
    \E p \in Procs :
        /\ ev = Event("timerShutdown", p)
        /\ status[1] = "idleKilled"
        /\ localGatewayProcess[p] = 0 /\ getSharedGatewayUrl(p) = <<>>
        /\ ~isSharedGatewayActive(p)

\* A launch has succeeded and the write of its record failed: handle and url are
\* both set all the same.
C35_SetWitness ==
    \E p \in Procs :
        /\ ev = Event("acqWriteFailed", p)
        /\ isSharedGatewayActive(p) /\ getSharedGatewayUrl(p) = <<GatewayUrl(1)>>

\* ------------------------------------------------------------ review tools
\*
\* src/unnamed/part_002: report_finding and submit_review share the factory's
\* variable findings, and reconstructState sets it from the session's branch on
\* every session event.  An array is an object: findings is a reference, either
\* to an array only the tools hold ([own |-> elements]) or to the array in the
\* details of a session entry ([entry |-> id]), which findings.push then changes
\* in place.  The session is a tree of entries, each naming its parent; its
\* branch is the path from the root to the current leaf.

\* What the frame of a step of the review tools leaves alone.
coordinatorVars ==
    <<store, status, pc, existingInfo, cwdArg, spawned, sync, relInfo,
      localGatewayProcess, localGatewayUrl, timerVars, isCoordinatorInitialized,
      result, holding, events, testMode, procEnv, host, spawnArgs, elapsed,
      exited, started>>

\* The priorities the checked calls use, of 0 | 1 | 2 | 3.
Priorities == {0, 2}

\* const finding: Finding = { title: params.title, ..., line_end: params.line_end }
Finding(params) ==
    [title |-> params.title, body |-> params.body, priority |-> params.priority,
     confidence |-> params.confidence, file_path |-> params.file_path,
     line_start |-> params.line_start, line_end |-> params.line_end]

\* The arguments of the checked report_finding calls: the title numbers the call.
FindingParams(n) ==
    { [title |-> n, body |-> "body", priority |-> pr, confidence |-> 1,
       file_path |-> "/proj/a.ts", line_start |-> 1, line_end |-> 1] : pr \in Priorities }

SubmitParams ==
    { [overall_correctness |-> c, explanation |-> "because", confidence |-> 1] :
          c \in {"correct", "incorrect"} }

\* A session entry holding the tool result message the agent appends after a call.
ToolResultEntry(toolName, details) ==
    [parent |-> leaf, type |-> "message", role |-> "toolResult",
     toolName |-> toolName, details |-> details]

\* The elements of the array findings refers to.
elements(ref, es) ==
    IF "own" \in DOMAIN ref THEN ref.own ELSE es[ref.entry].details[1].findings

\* findings.push(finding): the array referred to gets one more element, in place.
push(ref, finding) ==
    IF "own" \in DOMAIN ref THEN [own |-> Append(ref.own, finding)] ELSE ref

pushed(ref, es, finding) ==
    IF "own" \in DOMAIN ref THEN es
    ELSE [es EXCEPT ![ref.entry].details =
              <<[@[1] EXCEPT !.findings = Append(@, finding)]>>]

\* The report_finding calls executed so far in the session, on any branch.
Reports == {i \in DOMAIN entries : entries[i].toolName = "report_finding"
                                   /\ entries[i].details # <<>>}

\* reportFinding.execute: push the finding, return the text with the new total and
\* details { finding, findings: [...findings] }; the agent appends the result.
ReportFinding(params) ==
    /\ Len(entries) < MaxEntries
    /\ LET finding == Finding(params)
           after == pushed(findings, entries, finding)
           total == Len(elements(findings, entries)) + 1
           details == [finding |-> finding,
                       findings |-> Append(elements(findings, entries), finding)]
       IN /\ findings' = push(findings, finding)
          /\ toolResult' = <<[content |-> [title |-> finding.title, total |-> total],
                             details |-> details]>>
          /\ entries' = Append(after, ToolResultEntry("report_finding", <<details>>))
          /\ reported' = Append(reported, finding)
    /\ leaf' = Len(entries) + 1
    /\ ev' = Event("reportFinding", 0)
    /\ UNCHANGED <<delivered, coordinatorVars>>

\* The findings of one priority, in report order.
byPriority(list, priority) ==
    SelectSeq(list, LAMBDA f : f.priority = priority)

\* submitReview.execute: the summary groups the findings by priority; findings
\* becomes a new empty array; details { ...result, findings: savedFindings }.
SubmitReview(params) ==
    /\ Len(entries) < MaxEntries
    /\ LET savedFindings == elements(findings, entries)
           summary == [verdict |-> params.overall_correctness,
                       count |-> Len(savedFindings),
                       groups |-> [pr \in 0..3 |-> byPriority(savedFindings, pr)]]
           details == [overall_correctness |-> params.overall_correctness,
                       explanation |-> params.explanation,
                       confidence |-> params.confidence,
                       findings |-> savedFindings]
       IN /\ toolResult' = <<[content |-> summary, details |-> details]>>
          /\ entries' = Append(entries, ToolResultEntry("submit_review", <<details>>))
          /\ delivered' = Append(delivered, savedFindings)
    /\ findings' = [own |-> <<>>]
    /\ reported' = <<>>
    /\ leaf' = Len(entries) + 1
    /\ ev' = Event("submitReview", 0)
    /\ UNCHANGED coordinatorVars

\* A call of one of the two tools that does not reach execute (its arguments are
\* rejected, it is aborted): the agent appends a tool result without details, the
\* case renderResult's `if (!details)` is written for.  findings is not touched.
ToolCallFails(toolName) ==
    /\ Len(entries) < MaxEntries
    /\ entries' = Append(entries, ToolResultEntry(toolName, <<>>))
    /\ leaf' = Len(entries) + 1
    /\ toolResult' = <<[content |-> [error |-> "rejected"]]>>
    /\ ev' = Event("toolCallFails", 0)
    /\ UNCHANGED <<findings, reported, delivered, coordinatorVars>>

\* The entries of a session that are not results of the two tools: an entry that
\* is not a message, a message that is not a tool result, another tool's result.
OtherEntries ==
    { [type |-> "compaction", role |-> "", toolName |-> ""],
      [type |-> "message", role |-> "user", toolName |-> ""],
      [type |-> "message", role |-> "toolResult", toolName |-> "bash"] }

OtherEntry(e) ==
    /\ Len(entries) < MaxEntries
    /\ entries' = Append(entries, [parent |-> leaf, type |-> e.type, role |-> e.role,
                                   toolName |-> e.toolName, details |-> <<>>])
    /\ leaf' = Len(entries) + 1
    /\ ev' = Event("otherEntry", 0)
    /\ UNCHANGED <<findings, toolResult, reported, delivered, coordinatorVars>>

\* ctx.sessionManager.getBranch(): the ids of the entries from the root to l.
RECURSIVE getBranch(_)
getBranch(l) == IF l = 0 THEN <<>> ELSE Append(getBranch(entries[l].parent), l)

\* The body of reconstructState's loop for the entry id.
reconstructEntry(ref, id) ==
    LET entry == entries[id]
    IN IF entry.type # "message" THEN ref
       ELSE IF entry.role # "toolResult" THEN ref
       ELSE IF entry.toolName = "report_finding"
            THEN IF entry.details # <<>> /\ "findings" \in DOMAIN entry.details[1]
                 THEN [entry |-> id] ELSE ref
       ELSE IF entry.toolName = "submit_review" THEN [own |-> <<>>]
       ELSE ref

RECURSIVE reconstructLoop(_, _)
reconstructLoop(ref, branch) ==
    IF branch = <<>> THEN ref
    ELSE reconstructLoop(reconstructEntry(ref, Head(branch)), Tail(branch))

\* reconstructState over the branch that ends at l: findings = [], then the loop.
\* getBranch is not part of this module: the entries it hands out are the
\* session's own objects, so that findings = details.findings shares the entry's
\* array, or copies of them, so that the array is the tools' alone.
reconstructState(l) ==
    LET ref == reconstructLoop([own |-> <<>>], getBranch(l))
    IN IF "own" \in DOMAIN ref THEN {ref}
       ELSE {ref, [own |-> elements(ref, entries)]}

\* A session event that leaves the leaf where it is (the session is loaded or
\* resumed): onSession runs reconstructState.
SessionEvent ==
    /\ findings' \in reconstructState(leaf)
    /\ ev' = Event("sessionEvent", 0)
    /\ UNCHANGED <<entries, leaf, toolResult, reported, delivered, coordinatorVars>>

\* The session moves to another leaf of its tree (branch, tree navigation), and
\* onSession runs reconstructState over the new branch.
Navigate(l) ==
    /\ l # leaf
    /\ leaf' = l
    /\ findings' \in reconstructState(l)
    /\ ev' = Event("navigate", 0)
    /\ UNCHANGED <<entries, toolResult, reported, delivered, coordinatorVars>>

ToolCall ==
    \/ \E params \in FindingParams(Cardinality(Reports) + 1) : ReportFinding(params)
    \/ \E params \in SubmitParams : SubmitReview(params)
    \/ \E toolName \in {"report_finding", "submit_review"} : ToolCallFails(toolName)
    \/ \E e \in OtherEntries : OtherEntry(e)

\* A session that only grows: calls, other entries, and reloads of the branch.
NextReviewRun ==
    \/ ToolCall
    \/ SessionEvent

SpecReviewRun == Init /\ [][NextReviewRun]_vars

\* The same with moves along the session's tree.
NextReview ==
    \/ ToolCall
    \/ SessionEvent
    \/ \E l \in 0..Len(entries) : Navigate(l)

SpecReview == Init /\ [][NextReview]_vars

\* The tools within one run of the agent, with no session event after the start.
SpecTools == Init /\ [][ToolCall]_vars

\* C36 (accumulate and flush): every submit_review returns in its details exactly
\* the findings reported since the previous submit_review call, in report order,
\* and leaves findings empty; the n-th report_finding after a submit_review (or
\* after the start) reports a total of n; and no finding is in the details of
\* two different submit_review calls.
C36_SubmitDeliversReported ==
    /\ [](\A i, j \in DOMAIN delivered :
            i # j => \A k \in DOMAIN delivered[i] : \A m \in DOMAIN delivered[j] :
                        delivered[i][k] # delivered[j][m])
    /\ [][/\ ev'.op = "submitReview"
               => /\ toolResult'[1].details.findings = reported
                  /\ elements(findings', entries') = <<>>
          /\ ev'.op = "reportFinding"
               => toolResult'[1].content.total = Len(reported')
       ]_vars

\* A submit_review has just returned no findings although one was reported since
\* the previous successful submit_review: the finding is in no call's details.
C36_FindingLost ==
    /\ ev.op = "submitReview"
    /\ toolResult[1].details.findings = <<>>
    /\ \E i \in Reports : \A j \in DOMAIN delivered : \A k \in DOMAIN delivered[j] :
           delivered[j][k] # entries[i].details[1].finding

\* The list the tools hold after the calls recorded on a branch have run, from an
\* empty list: an executed report_finding adds its finding, an executed
\* submit_review empties the list, a call that did not reach execute and every
\* other entry leave it as it is.
RECURSIVE executed(_, _)
executed(list, branch) ==
    IF branch = <<>> THEN list
    ELSE LET entry == entries[Head(branch)]
         IN executed(IF entry.details = <<>> THEN list
                     ELSE IF entry.toolName = "report_finding"
                          THEN Append(list, entry.details[1].finding)
                     ELSE <<>>,
                     Tail(branch))

\* C37 (replay equals run): after every session event, the list reconstructState
\* has built from the session's branch is the list that executing the calls
\* recorded on that branch leaves in memory.
C37_ReplayEqualsRun ==
    ev.op \in {"sessionEvent", "navigate"}
        => elements(findings, entries) = executed(<<>>, getBranch(leaf))

\* What holds of C37: in a session that only grows, replay equals run as long as
\* no submit_review call on the branch failed to reach execute.
C37_ExecutedCallsReplay ==
    (/\ ev.op = "sessionEvent"
     /\ \A i \in DOMAIN entries :
           entries[i].toolName = "submit_review" => entries[i].details # <<>>)
        => elements(findings, entries) = executed(<<>>, getBranch(leaf))

\* The replay has just emptied the list because of the result of a submit_review
\* call that was rejected, although the finding reported before it was never
\* submitted.
C37_RejectedSubmitReplayed ==
    /\ ev.op = "sessionEvent"
    /\ elements(findings, entries) = <<>>
    /\ delivered = <<>> /\ Len(reported) = 1
    /\ Len(entries) = 2 /\ entries[2].toolName = "submit_review" /\ entries[2].details = <<>>

\* The session has just moved back to the entry of the first report_finding, and
\* the replay gives two findings: the second was pushed, on the branch left, onto
\* the array of the first entry's details, which findings shared since a replay.
C37_SharedArrayReplayed ==
    /\ ev.op = "navigate" /\ leaf = 1
    /\ Len(elements(findings, entries)) = 2
    /\ executed(<<>>, getBranch(leaf)) = <<entries[1].details[1].finding>>

====
